---- MODULE Spec2Model ----
(***************************************************************************)
(* Model of the file-organizer classification-and-placement engine:        *)
(* FileOrganizer (allow-list walker, src/fileOrganizer.js).                *)
(* A file name is a sequence of tokens, "." being the extension separator; *)
(* a path is a sequence of names; the filesystem is a function from paths  *)
(* to nodes.                                                               *)
(***************************************************************************)
EXTENDS Integers, Sequences, FiniteSets, TLC

\* ------------------------------------------------------------------ bounds
MaxFiles == 3
MaxEntries == 2

\* ------------------------------------------------------- names and paths
\* String.prototype.toLowerCase on one token
Lower(t) ==
    CASE t = "JPG" -> "jpg"
      [] t = "PNG" -> "png"
      [] t = "ZIP" -> "zip"
      [] t = "Screenshot" -> "screenshot"
      [] OTHER -> t

LowerName(n) == [i \in 1..Len(n) |-> Lower(n[i])]

\* positions of "." in a name
DotsOf(n) == {i \in 1..Len(n) : n[i] = "."}

LastDot(n) == CHOOSE i \in DotsOf(n) : \A j \in DotsOf(n) : j <= i

\* path.extname: from the last "." to the end; empty when there is no "."
\* or when the only "." is the first character
ExtName(n) ==
    IF DotsOf(n) = {} \/ LastDot(n) = 1 THEN <<>>
    ELSE SubSeq(n, LastDot(n), Len(n))

\* path.parse(n).name and path.basename(n, extname(n))
ParseName(n) == SubSeq(n, 1, Len(n) - Len(ExtName(n)))

NoExtension == <<"no-extension">>

getFileExtension(n) ==
    LET ext == LowerName(ExtName(n))
    IN  IF Len(ext) > 0 /\ ext[1] = "." THEN Tail(ext)
        ELSE IF ext # <<>> THEN ext ELSE NoExtension

Dirname(p) == SubSeq(p, 1, Len(p) - 1)
Basename(p) == p[Len(p)]
IsPrefix(p, q) == Len(p) <= Len(q) /\ SubSeq(q, 1, Len(p)) = p
Prefixes(p) == {SubSeq(p, 1, i) : i \in 1..Len(p)}

allowedFileTypes ==
    { <<"jpeg">>, <<"jpg">>, <<"png">>, <<"eps">>, <<"ai">>, <<"psd">>,
      <<"pdf">>, <<"crw">>, <<"zip">>, <<"rar">>, <<"svg">>, <<"cdr">> }

isAllowedFileType(e) == LowerName(e) \in allowedFileTypes

getFolderNameForExtension(e) == LowerName(e)

IllegalChars == {"<", ">", ":", "\"", "/", "\\", "|", "?", "*"}

RECURSIVE TrimLeft(_)
TrimLeft(n) == IF n # <<>> /\ n[1] = " " THEN TrimLeft(Tail(n)) ELSE n

RECURSIVE TrimRight(_)
TrimRight(n) ==
    IF n # <<>> /\ n[Len(n)] = " " THEN TrimRight(SubSeq(n, 1, Len(n) - 1))
    ELSE n

sanitizeFileName(n) ==
    TrimRight(TrimLeft([i \in 1..Len(n) |->
                          IF n[i] \in IllegalChars THEN "_" ELSE n[i]]))

isArchiveFile(e) == LowerName(e) \in {<<"zip">>, <<"rar">>}

\* ----------------------------------------------------------- signatures
JpegSig == <<255, 216, 255>>
PngSig == <<137, 80, 78, 71>>
PdfSig == <<37, 80, 68, 70>>
ZipSig == <<80, 75, 3, 4>>
RarSig == <<82, 97, 114, 33>>
EpsSig == <<37, 33, 80, 83>>
PsdSig == <<56, 66, 80, 83>>
TextBytes == <<84, 101, 115, 116>>

signatures ==
    << <<"jpg", JpegSig>>, <<"jpeg", JpegSig>>, <<"png", PngSig>>,
       <<"pdf", PdfSig>>, <<"zip", ZipSig>>, <<"rar", RarSig>>,
       <<"eps", EpsSig>>, <<"psd", PsdSig>> >>

\* signature.every((byte, index) => buffer[index] === byte)
SigMatches(sig, bytes) ==
    \A i \in 1..Len(sig) : i <= Len(bytes) /\ bytes[i] = sig[i]

\* ------------------------------------------------------------ filesystem
\* A node is a directory or a regular file; a file carries its content:
\* leading bytes, an identity (who wrote these bytes first), the container
\* format the bytes really are, and the entries when it is a container.
NoContent == [bytes |-> <<>>, id |-> "", arc |-> "none", ents |-> {}]
DirNode == [t |-> "d", c |-> NoContent]
FileNode(c) == [t |-> "f", c |-> c]

Plain(bytes, id) == [bytes |-> bytes, id |-> id, arc |-> "none", ents |-> {}]

pathExists(f, p) == p \in DOMAIN f
IsDirectory(f, p) == p \in DOMAIN f /\ f[p].t = "d"
IsFile(f, p) == p \in DOMAIN f /\ f[p].t = "f"

\* a directory the process may not list (EACCES)
Denied == [bytes |-> <<>>, id |-> "EACCES", arc |-> "none", ents |-> {}]
DeniedDir == [t |-> "d", c |-> Denied]

\* fs.readdir(p) succeeds on a directory the process may list
ReaddirOk(f, p) == IsDirectory(f, p) /\ f[p].c # Denied

\* a symbolic link whose target is gone: readdir lists it, fs.stat fails (ENOENT)
Dangling == [bytes |-> <<>>, id |-> "ENOENT", arc |-> "none", ents |-> {}]
DanglingLink == [t |-> "l", c |-> Dangling]

\* fs.stat(p) succeeds
StatOk(f, p) == p \in DOMAIN f /\ f[p].t # "l"

\* fs.readdir: names of the children of p
Readdir(f, p) == {Basename(q) : q \in {r \in DOMAIN f : Len(r) = Len(p) + 1 /\ IsPrefix(p, r)}}

\* fs.ensureDir succeeds unless a component of p is a regular file
EnsureDirOk(f, p) == \A q \in Prefixes(p) : q \in DOMAIN f => f[q].t = "d"

EnsureDir(f, p) ==
    [q \in DOMAIN f \cup Prefixes(p) |-> IF q \in DOMAIN f THEN f[q] ELSE DirNode]

WriteFile(f, p, c) ==
    [q \in DOMAIN f \cup {p} |-> IF q = p THEN FileNode(c) ELSE f[q]]

\* fs.copy(src, dest) of a regular file: creates the parents of dest and
\* replaces a regular file at dest (overwrite defaults to true)
CopyOk(f, src, dst) ==
    /\ IsFile(f, src)
    /\ EnsureDirOk(f, Dirname(dst))
    /\ ~IsDirectory(f, dst)

Copy(f, src, dst) == WriteFile(EnsureDir(f, Dirname(dst)), dst, f[src].c)

\* fs.remove: p and everything below it
Remove(f, p) == [q \in {r \in DOMAIN f : ~IsPrefix(p, r)} |-> f[q]]

\* ------------------------------------------------- FileOrganizer, pure
RECURSIVE FirstSignature(_, _)
FirstSignature(bytes, i) ==
    IF i > Len(signatures) THEN <<>>
    ELSE IF SigMatches(signatures[i][2], bytes) THEN <<signatures[i][1]>>
    ELSE FirstSignature(bytes, i + 1)

\* a detection that trusts the name alone
detectFileTypeByName(f, filePath) == getFileExtension(Basename(filePath))

\* detectFileType: first matching signature, else the name's extension;
\* an unreadable file falls back to the extension as well
detectFileType(f, filePath) ==
    IF IsFile(f, filePath) /\ FirstSignature(f[filePath].c.bytes, 1) # <<>>
    THEN FirstSignature(f[filePath].c.bytes, 1)
    ELSE getFileExtension(Basename(filePath))

getCorrectFileExtension(f, filePath) ==
    LET detectedType == detectFileType(f, filePath)
        currentExtension == getFileExtension(Basename(filePath))
    IN  IF /\ detectedType # currentExtension
           /\ isAllowedFileType(detectedType)
           /\ isAllowedFileType(currentExtension)
        THEN detectedType
        ELSE currentExtension

\* the extension copyFileToOrganizedLocation resolves
ResolvedExtension(f, filePath) ==
    LET detectedType == detectFileType(f, filePath)
        currentExtension == getFileExtension(Basename(filePath))
    IN  IF isAllowedFileType(detectedType) THEN detectedType ELSE currentExtension

FinalFileName(f, filePath) ==
    LET originalFileName == Basename(filePath)
        correctExtension == ResolvedExtension(f, filePath)
    IN  IF correctExtension # getFileExtension(originalFileName)
        THEN sanitizeFileName(ParseName(originalFileName) \o <<".">> \o correctExtension)
        ELSE sanitizeFileName(originalFileName)

Suffixed(fileName, counter) ==
    ParseName(fileName) \o <<"_", ToString(counter)>> \o ExtName(fileName)

\* a duplicate loop that takes its first candidate without looking
ProbeWithoutLooking(f, targetDir, fileName, counter) ==
    Append(targetDir, Suffixed(fileName, counter))

\* the duplicate loop: the nominal path, then name_1, name_2, ...
RECURSIVE ProbeFrom(_, _, _, _)
ProbeFrom(f, targetDir, fileName, counter) ==
    LET candidate == Append(targetDir, Suffixed(fileName, counter))
    IN  IF pathExists(f, candidate)
        THEN ProbeFrom(f, targetDir, fileName, counter + 1)
        ELSE candidate

\* the resolver without its duplicate loop
FinalTargetPathNoProbe(f, targetDir, fileName) == Append(targetDir, fileName)

FinalTargetPath(f, targetDir, fileName) ==
    IF pathExists(f, Append(targetDir, fileName))
    THEN ProbeFrom(f, targetDir, fileName, 1)
    ELSE Append(targetDir, fileName)

NullPath == <<>>

CopyEvent(src, dst, f, r) ==
    [src |-> src, dst |-> dst, existed |-> pathExists(f, dst),
     id |-> f[src].c.id, run |-> r]

\* a skip that is counted as an error instead
SkipFileAsError(w) == [w EXCEPT !.stats.errors = @ + 1, !.ret = NullPath]

\* the branch of an unsupported type: counted as skipped, nothing else
SkipFile(w) == [w EXCEPT !.stats.skippedFiles = @ + 1, !.ret = NullPath]

\* ensureDirectory(targetDir), fs.copy(filePath, finalTargetPath) and the
\* counters; a failing ensureDirectory counts an error and goes on to the
\* copy, a failing copy is counted by the catch
PlaceFile(w, filePath, targetDir, finalTargetPath, dry, r) ==
    IF dry
    THEN [w EXCEPT !.stats.filesProcessed = @ + 1, !.ret = finalTargetPath]
    ELSE LET f == w.fs
             dirOk == EnsureDirOk(f, targetDir)
             f1 == IF dirOk THEN EnsureDir(f, targetDir) ELSE f
             e1 == IF dirOk THEN 0 ELSE 1
         IN  IF CopyOk(f1, filePath, finalTargetPath)
             THEN [w EXCEPT
                     !.fs = Copy(f1, filePath, finalTargetPath),
                     !.stats.filesProcessed = @ + 1,
                     !.stats.errors = @ + e1,
                     !.copies = Append(@, CopyEvent(filePath, finalTargetPath, f1, r)),
                     !.ret = finalTargetPath]
             ELSE [w EXCEPT !.fs = f1, !.stats.errors = @ + e1 + 1,
                            !.ret = NullPath]

TargetDir(f, filePath, base, od) ==
    base \o od \o <<getFolderNameForExtension(ResolvedExtension(f, filePath))>>

\* copyFileToOrganizedLocation(filePath, basePath): the state after the call;
\* w is the record [fs, stats, copies, ret, out], ret the returned path
copyFileToOrganizedLocation(w, filePath, base, od, dry, r) ==
    IF ~isAllowedFileType(ResolvedExtension(w.fs, filePath))
    THEN SkipFile(w)
    ELSE PlaceFile(w, filePath, TargetDir(w.fs, filePath, base, od),
                   FinalTargetPath(w.fs, TargetDir(w.fs, filePath, base, od),
                                   FinalFileName(w.fs, filePath)),
                   dry, r)

\* ------------------------------------------------------ archive expansion
TempExtract == <<"temp_extract">>

ExtractDirOf(archivePath, base) ==
    base \o <<TempExtract, ParseName(Basename(archivePath))>>

DotDot == <<"..">>

\* path.join normalises its result: a ".." segment removes the segment
\* before it
RECURSIVE JoinFrom(_, _)
JoinFrom(acc, p) ==
    IF p = <<>> THEN acc
    ELSE IF Head(p) = DotDot
    THEN JoinFrom(IF acc = <<>> THEN acc ELSE SubSeq(acc, 1, Len(acc) - 1), Tail(p))
    ELSE JoinFrom(Append(acc, Head(p)), Tail(p))

JoinPath(p) == JoinFrom(<<>>, p)

\* a reader that hands every entry name to the entry handler
validateFileNameNever(e) == TRUE

\* yauzl.open with its default options (decodeStrings) validates each entry
\* name before it emits "entry": a name with a ".." segment makes the
\* zipfile emit "error" instead, which rejects the extraction
validateFileName(e) == \A i \in 1..Len(e.p) : e.p[i] # DotDot

\* one file entry of a zip: parents are created, then the bytes are written;
\* a write onto an existing directory fails and the entry is skipped
WriteEntry(f, extractDir, e) ==
    LET filePath == JoinPath(extractDir \o e.p)
    IN  IF IsDirectory(f, filePath) THEN f
        ELSE WriteFile(EnsureDir(f, Dirname(filePath)), filePath, e.c)

\* entry names of one archive are distinct and none lies below another
RECURSIVE ExtractEntries(_, _, _)
ExtractEntries(f, extractDir, ents) ==
    IF ents = {} THEN f
    ELSE LET e == CHOOSE x \in ents : TRUE
         IN  ExtractEntries(WriteEntry(f, extractDir, e), extractDir, ents \ {e})

\* the entries the reader emits; an entry it refuses is the last of its
\* archive
EmittedEntries(ents) == {e \in ents : validateFileName(e)}

\* the ensureDir inside the openReadStream callback is outside every try:
\* its rejection is never handled and the extraction promise never settles.
\* The read stream of an entry has no "error" listener: when it fails, the
\* write stream neither closes nor fails, readEntry is not called again and
\* the promise is never settled either
ZipStalls(f, extractDir, ents) ==
    \E e \in ents : \/ ~EnsureDirOk(f, Dirname(JoinPath(extractDir \o e.p)))
                    \/ e.stream = "error"

\* extractArchive(archivePath, basePath): the state after the call.
\* out is "ok" (returns extractDir), "fail" (returns null) or "stall";
\* tool tells whether the external 7z tool works for this call
extractArchive(w, archivePath, base, dry, tool) ==
    LET f == w.fs
        extension == getFileExtension(Basename(archivePath))
        extractDir == ExtractDirOf(archivePath, base)
        dirOk == EnsureDirOk(f, extractDir)
        f1 == IF dirOk THEN EnsureDir(f, extractDir) ELSE f
        e1 == IF dirOk THEN 0 ELSE 1
        c == IF IsFile(f, archivePath) THEN f[archivePath].c ELSE NoContent
        okW == [w EXCEPT !.stats.archivesExtracted = @ + 1, !.ret = extractDir]
    IN  IF dry THEN [okW EXCEPT !.out = "ok"]
        ELSE IF extension = <<"zip">>
        THEN IF c.arc # "zip"
             THEN [w EXCEPT !.fs = f1, !.stats.errors = @ + e1 + 1,
                            !.ret = NullPath, !.out = "fail"]
             ELSE IF ZipStalls(f1, extractDir, EmittedEntries(c.ents))
             THEN [w EXCEPT !.fs = f1, !.stats.errors = @ + e1,
                            !.ret = NullPath, !.out = "stall"]
             ELSE IF EmittedEntries(c.ents) # c.ents
             THEN [w EXCEPT !.fs = ExtractEntries(f1, extractDir, EmittedEntries(c.ents)),
                            !.stats.errors = @ + e1 + 1,
                            !.ret = NullPath, !.out = "fail"]
             ELSE [okW EXCEPT !.fs = ExtractEntries(f1, extractDir, c.ents),
                              !.stats.errors = @ + e1, !.out = "ok"]
        ELSE IF extension = <<"rar">> \/ extension = <<"7z">>
        THEN IF tool /\ c.arc \in {"zip", "rar"} /\ ~ZipStalls(f1, extractDir, c.ents)
             THEN [okW EXCEPT !.fs = ExtractEntries(f1, extractDir, c.ents),
                              !.stats.errors = @ + e1, !.out = "ok"]
             ELSE [w EXCEPT !.fs = f1, !.stats.errors = @ + e1 + 1,
                            !.ret = NullPath, !.out = "fail"]
        ELSE [w EXCEPT !.fs = f1, !.stats.errors = @ + e1,
                       !.ret = NullPath, !.out = "fail"]

\* ------------------------------------------------------------------ state
VARIABLES
    fs,         \* the filesystem
    fs0,        \* the filesystem before the first run
    opts,       \* options of the organizers of this session
    session,    \* dryRun flags of the runs still to start
    run,        \* number of the current run (0 before the first)
    phase,      \* "idle", "run", "stalled" or "done"
    dryRun,     \* options.dryRun of the current organizer
    todo,       \* directories organizeDirectories has not reached yet
    basePath,   \* basePath of the current scanDirectory tree
    stack,      \* pending scanDirectory / handleArchiveFile activations
    stats,      \* this.stats of the current organizer
    copies,     \* every fs.copy performed, in order
    visited,    \* every directory enumerated as a source, with its run
    statsLog,   \* the stats printed by each finished run
    last,       \* the most recent copyFileToOrganizedLocation call
    lastArch,   \* the most recent finished handleArchiveFile call
    outputStructure, \* SmartFileOrganizer: this.outputStructure
    allFiles,   \* SmartFileOrganizer: the files the scan phase returned
    chunks,     \* SmartFileOrganizer: chunks processFiles has not started
    procs       \* SmartFileOrganizer: the processFile calls of the chunk

smartVars == <<outputStructure, allFiles, chunks, procs>>

vars == <<fs, fs0, opts, session, run, phase, dryRun, todo, basePath, stack,
          stats, copies, visited, statsLog, last, lastArch, smartVars>>

NoStructure == [set |-> FALSE, outputPath |-> <<>>]

ZeroStats == [filesProcessed |-> 0, skippedFiles |-> 0,
              archivesExtracted |-> 0, errors |-> 0]

NoPre == [fs |-> <<>>, stats |-> ZeroStats, ncopies |-> 0]

NoFrame == [k |-> "none", dir |-> NullPath, items |-> {}, arch |-> NullPath,
            pre |-> NoPre]

NoCall == [op |-> "none", path |-> NullPath, ret |-> NullPath, out |-> "",
           dry |-> FALSE, run |-> 0, base |-> NullPath, pre |-> NoPre,
           post |-> NoPre, frame |-> NoFrame]

Here == [fs |-> fs, stats |-> stats, copies |-> copies, ret |-> NullPath, out |-> ""]

PreOf(w) == [fs |-> w.fs, stats |-> w.stats, ncopies |-> Len(w.copies)]

ScanFrame(dir, items) ==
    [k |-> "scan", dir |-> dir, items |-> items, arch |-> NullPath, pre |-> NoPre]

ArchFrame(archivePath, extractedPath, pre) ==
    [k |-> "arch", dir |-> extractedPath, items |-> {}, arch |-> archivePath, pre |-> pre]

Top == stack[Len(stack)]
Pop == SubSeq(stack, 1, Len(stack) - 1)

\* scanDirectory(dirPath): readdir, or the catch when it fails
EnterDirectory(stk, f, dirPath) ==
    IF ReaddirOk(f, dirPath)
    THEN Append(stk, ScanFrame(dirPath, Readdir(f, dirPath)))
    ELSE stk

EnterErrors(f, dirPath) == IF ReaddirOk(f, dirPath) THEN 0 ELSE 1

EnterVisit(v, f, dirPath, base, r) ==
    IF ReaddirOk(f, dirPath)
    THEN v \cup {[dir |-> dirPath, base |-> base, run |-> r]}
    ELSE v

\* ---------------------------------------------------------- initial trees
nm(b, e) == <<b, ".", e>>
A == <<"A">>
B == <<"B">>
Sub == <<"sub">>
Out == <<"out">>
Locked == <<"locked">>

Directories == << <<A>>, <<B>> >>

PlainCandidates ==
    { [p |-> <<A, nm("a", "jpg")>>, c |-> Plain(TextBytes, "f1")],
      [p |-> <<A, Sub, nm("a", "jpg")>>, c |-> Plain(TextBytes, "f2")],
      [p |-> <<A, nm("a", "png")>>, c |-> Plain(JpegSig, "f3")],
      [p |-> <<A, nm("n", "txt")>>, c |-> Plain(TextBytes, "f4")],
      [p |-> <<A, nm("j", "txt")>>, c |-> Plain(JpegSig, "f5")],
      [p |-> <<A, Out, <<"jpg">>, nm("a", "jpg")>>, c |-> Plain(TextBytes, "f6")],
      [p |-> <<A, TempExtract, <<"z">>, nm("x", "jpg")>>, c |-> Plain(TextBytes, "f7")],
      [p |-> <<B, nm("a", "jpg")>>, c |-> Plain(TextBytes, "f8")],
      [p |-> <<A, <<"k", ":", ".", "PNG">>>>, c |-> Plain(JpegSig, "f9")],
      [p |-> <<A, Locked>>, c |-> Denied],
      [p |-> <<A, Sub, Out, nm("a", "jpg")>>, c |-> Plain(JpegSig, "f10")] }

\* stream tells whether the compressed data of the entry can be read to its end
EntryUniverse ==
    { [p |-> <<nm("a", "jpg")>>, c |-> Plain(TextBytes, "e1"), stream |-> "ok"],
      [p |-> <<<<"d">>, nm("b", "png")>>, c |-> Plain(PngSig, "e2"), stream |-> "ok"],
      [p |-> <<Out, nm("c", "jpg")>>, c |-> Plain(JpegSig, "e3"), stream |-> "ok"],
      [p |-> <<nm("t", "txt")>>, c |-> Plain(TextBytes, "e4"), stream |-> "ok"],
      [p |-> <<DotDot, DotDot, nm("v", "jpg")>>, c |-> Plain(JpegSig, "e5"), stream |-> "ok"],
      [p |-> <<nm("w", "jpg")>>, c |-> Plain(JpegSig, "e6"), stream |-> "error"] }

EntrySets == {E \in SUBSET EntryUniverse : Cardinality(E) <= MaxEntries}

ArchiveCandidates ==
    { [p |-> <<A, nm("z", "zip")>>,
       c |-> [bytes |-> ZipSig, id |-> "z", arc |-> "zip", ents |-> E]] : E \in EntrySets }
    \cup
    { [p |-> <<A, nm("z", "zip")>>,
       c |-> [bytes |-> ZipSig, id |-> "z", arc |-> "none", ents |-> {}]],
      [p |-> <<A, nm("z", "rar")>>,
       c |-> [bytes |-> RarSig, id |-> "z", arc |-> "rar",
              ents |-> {[p |-> <<nm("a", "jpg")>>, c |-> Plain(TextBytes, "e1"),
                         stream |-> "ok"]}]],
      [p |-> <<A, nm("p", "jpg")>>,
       c |-> [bytes |-> ZipSig, id |-> "p", arc |-> "zip",
              ents |-> {[p |-> <<nm("a", "jpg")>>, c |-> Plain(TextBytes, "e1"),
                         stream |-> "ok"]}]] }

Trees ==
    { S \in SUBSET PlainCandidates : Cardinality(S) <= MaxFiles }
    \cup
    { S \cup {a} : S \in { T \in SUBSET PlainCandidates : Cardinality(T) < MaxFiles },
                   a \in ArchiveCandidates }

RECURSIVE BuildTree(_, _)
BuildTree(f, S) ==
    IF S = {} THEN f
    ELSE LET x == CHOOSE y \in S : TRUE
             g == EnsureDir(f, Dirname(x.p))
         IN  BuildTree(IF x.c \in {Denied, Dangling}
                       THEN [q \in DOMAIN g \cup {x.p} |->
                               IF q # x.p THEN g[q]
                               ELSE IF x.c = Denied THEN DeniedDir ELSE DanglingLink]
                       ELSE WriteFile(g, x.p, x.c),
                       S \ {x})

EmptyFs == (<<A>> :> DirNode)

\* a preview run followed by a real run with the same options, as the
\* authors' runRestrictedTest does
Sessions == { <<TRUE, FALSE>> }

Options == [outputDir : {<<Out>>},
            extractArchives : {TRUE},
            cleanupExtracted : {TRUE}]

InitWith(trees, options, sessions) ==
    /\ \E S \in trees : fs = BuildTree(EmptyFs, S)
    /\ fs0 = fs
    /\ opts \in options
    /\ session \in sessions
    /\ run = 0
    /\ phase = "idle"
    /\ dryRun = FALSE
    /\ todo = <<>>
    /\ basePath = <<>>
    /\ stack = <<>>
    /\ stats = ZeroStats
    /\ copies = <<>>
    /\ visited = {}
    /\ statsLog = <<>>
    /\ last = NoCall
    /\ lastArch = NoCall
    /\ outputStructure = NoStructure
    /\ allFiles = <<>>
    /\ chunks = <<>>
    /\ procs = <<>>

\* two archives of one base name: in two directories of the tree, or as
\* z.zip and z.rar side by side
SharedNameTrees ==
    { { [p |-> <<A, nm("z", "zip")>>,
         c |-> [bytes |-> ZipSig, id |-> "z", arc |-> "zip",
                ents |-> {[p |-> <<nm("a", "jpg")>>, c |-> Plain(TextBytes, "e1"),
                           stream |-> "ok"]}]],
        other } :
      other \in
        { [p |-> <<A, Sub, nm("z", "zip")>>,
           c |-> [bytes |-> ZipSig, id |-> "z2", arc |-> "zip",
                  ents |-> {[p |-> <<<<"d">>, nm("b", "png")>>,
                             c |-> Plain(PngSig, "e2"), stream |-> "ok"]}]],
          [p |-> <<A, nm("z", "rar")>>,
           c |-> [bytes |-> RarSig, id |-> "z3", arc |-> "rar",
                  ents |-> {[p |-> <<nm("t", "txt")>>, c |-> Plain(TextBytes, "e4"),
                             stream |-> "ok"]}]] } }

\* cleanupExtracted: false, the other options as above
KeepExtractedOptions ==
    [outputDir : {<<Out>>}, extractArchives : {TRUE}, cleanupExtracted : {FALSE}]

\* archiveOptions.maxDepth of the documented configuration
maxDepth == 5

NestedName(k) == <<"n", ToString(k), ".", "zip">>

\* a zip archive whose only entry is a zip archive, k levels deep; the
\* innermost holds one JPEG file
RECURSIVE Nested(_)
Nested(k) ==
    [bytes |-> ZipSig, id |-> "n", arc |-> "zip",
     ents |-> { [p |-> <<IF k = 1 THEN nm("a", "jpg") ELSE NestedName(k - 1)>>,
                 c |-> IF k = 1 THEN Plain(JpegSig, "e7") ELSE Nested(k - 1),
                 stream |-> "ok"] }]

NestedTrees == { { [p |-> <<A, NestedName(maxDepth + 2)>>, c |-> Nested(maxDepth + 2)] } }

\* a directory with a dangling link next to a file and a subdirectory
BrokenLinkTrees ==
    { { [p |-> <<A, <<"dead">>>>, c |-> Dangling],
        [p |-> <<A, nm("a", "jpg")>>, c |-> Plain(JpegSig, "f1")],
        [p |-> <<A, Sub, nm("a", "png")>>, c |-> Plain(PngSig, "f2")] } }

\* a regular file named jpg lies where the folder out/jpg would go
BlockedFolderTrees ==
    { { [p |-> <<A, Out, <<"jpg">>>>, c |-> Plain(TextBytes, "b1")],
        [p |-> <<A, nm("a", "jpg")>>, c |-> Plain(JpegSig, "f1")],
        [p |-> <<A, nm("b", "png")>>, c |-> Plain(PngSig, "f2")] } }

Init ==
    \/ InitWith(Trees, Options, Sessions)
    \/ InitWith(BlockedFolderTrees, Options, Sessions)
    \/ InitWith(BrokenLinkTrees, Options, Sessions)
    \/ InitWith(SharedNameTrees, KeepExtractedOptions, Sessions)
    \/ InitWith(NestedTrees, Options, Sessions)

\* ---------------------------------------------------------------- actions
\* what a call did: the state it started from and the state it left, and
\* the activation the walk resumes in
CallRecord(op, path, out, w0, w1, stk) ==
    [op |-> op, path |-> path, ret |-> w1.ret, out |-> out,
     dry |-> dryRun, run |-> run, base |-> basePath, pre |-> PreOf(w0),
     post |-> PreOf(w1),
     frame |-> IF stk = <<>> THEN NoFrame ELSE stk[Len(stk)]]

\* new FileOrganizer(options), then organizeDirectories(directories) begins
NewOrganizer ==
    /\ phase = "idle"
    /\ session # <<>>
    /\ dryRun' = Head(session)
    /\ session' = Tail(session)
    /\ run' = run + 1
    /\ stats' = ZeroStats
    /\ todo' = Directories
    /\ phase' = "run"
    /\ UNCHANGED <<fs, fs0, opts, basePath, stack, copies, visited, statsLog,
                   last, lastArch>>
    /\ UNCHANGED smartVars

\* one iteration of the loop of organizeDirectories
NextDirectory ==
    /\ phase = "run"
    /\ stack = <<>>
    /\ todo # <<>>
    /\ LET dir == Head(todo)
       IN  IF pathExists(fs, dir)
           THEN /\ basePath' = dir
                /\ stack' = EnterDirectory(stack, fs, dir)
                /\ stats' = [stats EXCEPT !.errors = @ + EnterErrors(fs, dir)]
                /\ visited' = EnterVisit(visited, fs, dir, dir, run)
           ELSE UNCHANGED <<basePath, stack, stats, visited>>
    /\ todo' = Tail(todo)
    /\ UNCHANGED <<fs, fs0, opts, session, run, phase, dryRun, copies,
                   statsLog, last, lastArch>>
    /\ UNCHANGED smartVars

\* the end of organizeDirectories
printStats ==
    /\ phase = "run"
    /\ stack = <<>>
    /\ todo = <<>>
    /\ statsLog' = Append(statsLog, [dry |-> dryRun, stats |-> stats])
    /\ phase' = IF session = <<>> THEN "done" ELSE "idle"
    /\ UNCHANGED <<fs, fs0, opts, session, run, dryRun, todo, basePath, stack,
                   stats, copies, visited, last, lastArch>>
    /\ UNCHANGED smartVars

Scanning == phase = "run" /\ stack # <<>> /\ Top.k = "scan"

Rest(item) == [stack EXCEPT ![Len(stack)].items = @ \ {item}]

\* scanDirectory, an entry that is a directory (or that stat cannot find)
ScanDirectoryItem ==
    /\ Scanning
    /\ \E item \in Top.items :
         LET itemPath == Append(Top.dir, item)
         IN  /\ ~IsFile(fs, itemPath)
             /\ IF ~StatOk(fs, itemPath)
                THEN /\ stack' = Pop
                     /\ stats' = [stats EXCEPT !.errors = @ + 1]
                     /\ UNCHANGED visited
                ELSE IF <<Basename(itemPath)>> = opts.outputDir
                THEN /\ stack' = Rest(item)
                     /\ UNCHANGED <<stats, visited>>
                ELSE /\ stack' = EnterDirectory(Rest(item), fs, itemPath)
                     /\ stats' = [stats EXCEPT !.errors = @ + EnterErrors(fs, itemPath)]
                     /\ visited' = EnterVisit(visited, fs, itemPath, basePath, run)
    /\ UNCHANGED <<fs, fs0, opts, session, run, phase, dryRun, todo, basePath,
                   copies, statsLog, last, lastArch>>
    /\ UNCHANGED smartVars

TakesArchiveRoute(itemPath) ==
    opts.extractArchives /\ isArchiveFile(getFileExtension(Basename(itemPath)))

\* scanDirectory, an entry that is a file and not an archive to expand
ScanFileItem ==
    /\ Scanning
    /\ \E item \in Top.items :
         \E itemPath \in {Append(Top.dir, item)} :
           /\ IsFile(fs, itemPath)
           /\ ~TakesArchiveRoute(itemPath)
           /\ \E w \in {copyFileToOrganizedLocation(Here, itemPath, basePath,
                                                    opts.outputDir, dryRun, run)} :
                /\ fs' = w.fs
                /\ stats' = w.stats
                /\ copies' = w.copies
                /\ last' = CallRecord("copy", itemPath, "", Here, w, Rest(item))
           /\ stack' = Rest(item)
    /\ UNCHANGED <<fs0, opts, session, run, phase, dryRun, todo, basePath,
                   visited, statsLog, lastArch>>
    /\ UNCHANGED smartVars

\* handleArchiveFile when extractArchive returned a directory: the walk of
\* the extracted directory starts
ArchiveExtracted(item, itemPath, x) ==
    /\ fs' = x.fs
    /\ stats' = [x.stats EXCEPT !.errors = @ + EnterErrors(x.fs, x.ret)]
    /\ stack' = EnterDirectory(
                   Append(Rest(item), ArchFrame(itemPath, x.ret, PreOf(Here))),
                   x.fs, x.ret)
    /\ visited' = EnterVisit(visited, x.fs, x.ret, basePath, run)
    /\ UNCHANGED <<copies, last, lastArch, phase>>

\* a handleArchiveFile that gives up on the archive when extraction fails
ArchiveNotExtractedNoCopy(item, itemPath, x) ==
    /\ fs' = x.fs
    /\ stats' = x.stats
    /\ stack' = Rest(item)
    /\ lastArch' = CallRecord("archive", itemPath, "fail", Here, x, Rest(item))
    /\ UNCHANGED <<copies, last, visited, phase>>

\* handleArchiveFile when extractArchive returned null: the archive itself
\* is copied at once
ArchiveNotExtracted(item, itemPath, x) ==
    \E w \in {copyFileToOrganizedLocation(x, itemPath, basePath,
                                          opts.outputDir, dryRun, run)} :
      /\ fs' = w.fs
      /\ stats' = w.stats
      /\ copies' = w.copies
      /\ stack' = Rest(item)
      /\ last' = CallRecord("copy", itemPath, "", x, w, Rest(item))
      /\ lastArch' = CallRecord("archive", itemPath, "fail", Here, w, Rest(item))
      /\ UNCHANGED <<visited, phase>>

\* the extraction promise never settles: the run goes no further
ArchiveStalled(x) ==
    /\ fs' = x.fs
    /\ stats' = x.stats
    /\ phase' = "stalled"
    /\ UNCHANGED <<stack, copies, visited, last, lastArch>>

\* scanDirectory, an archive: handleArchiveFile up to the walk of the
\* extracted directory, or the whole of it when extraction fails
handleArchiveFile ==
    /\ Scanning
    /\ \E item \in Top.items, tool \in BOOLEAN :
         \E itemPath \in {Append(Top.dir, item)} :
           /\ IsFile(fs, itemPath)
           /\ TakesArchiveRoute(itemPath)
           /\ \E x \in {extractArchive(Here, itemPath, basePath, dryRun, tool)} :
                CASE x.out = "ok" -> ArchiveExtracted(item, itemPath, x)
                  [] x.out = "fail" -> ArchiveNotExtracted(item, itemPath, x)
                  [] OTHER -> ArchiveStalled(x)
    /\ UNCHANGED <<fs0, opts, session, run, dryRun, todo, basePath, statsLog>>
    /\ UNCHANGED smartVars

\* scanDirectory returns: its loop is over
ScanReturn ==
    /\ Scanning
    /\ Top.items = {}
    /\ stack' = Pop
    /\ UNCHANGED <<fs, fs0, opts, session, run, phase, dryRun, todo, basePath,
                   stats, copies, visited, statsLog, last, lastArch>>
    /\ UNCHANGED smartVars

\* fs.remove(extractedPath), unless this is a preview or cleanup is disabled
CleanUp(w, extractedPath, dry, cleanupExtracted) ==
    IF ~dry /\ cleanupExtracted
    THEN [w EXCEPT !.fs = Remove(w.fs, extractedPath)]
    ELSE w

\* handleArchiveFile after the walk of the extracted directory: cleanup,
\* then the copy of the archive itself
ArchiveFinish ==
    /\ phase = "run"
    /\ stack # <<>>
    /\ Top.k = "arch"
    /\ \E cleaned \in {CleanUp(Here, Top.dir, dryRun, opts.cleanupExtracted)} :
         \E w \in {copyFileToOrganizedLocation(cleaned, Top.arch, basePath,
                                               opts.outputDir, dryRun, run)} :
           /\ fs' = w.fs
           /\ stats' = w.stats
           /\ copies' = w.copies
           /\ last' = CallRecord("copy", Top.arch, "", cleaned, w, Pop)
           /\ lastArch' = [CallRecord("archive", Top.arch, "ok", Here, w, Pop)
                             EXCEPT !.pre = Top.pre]
    /\ stack' = Pop
    /\ UNCHANGED <<fs0, opts, session, run, phase, dryRun, todo, basePath,
                   visited, statsLog>>
    /\ UNCHANGED smartVars

Next ==
    \/ NewOrganizer
    \/ NextDirectory
    \/ printStats
    \/ ScanDirectoryItem
    \/ ScanFileItem
    \/ handleArchiveFile
    \/ ScanReturn
    \/ ArchiveFinish

Spec == Init /\ [][Next]_vars

\* runs over a source directory that holds one archive of at most one entry
LiveTrees ==
    { {a} : a \in {x \in ArchiveCandidates : Cardinality(x.c.ents) <= 1} }

LiveInit == InitWith(LiveTrees, Options, { <<FALSE>>, <<TRUE, FALSE>> })

\* the single thread of the program always takes the step it is at
Fairness ==
    /\ WF_vars(NewOrganizer)
    /\ WF_vars(NextDirectory)
    /\ WF_vars(printStats)
    /\ WF_vars(ScanDirectoryItem)
    /\ WF_vars(ScanFileItem)
    /\ WF_vars(handleArchiveFile)
    /\ WF_vars(ScanReturn)
    /\ WF_vars(ArchiveFinish)

FairSpec == LiveInit /\ [][Next]_vars /\ Fairness

\* =========================================================================
\* SmartFileOrganizer (src/smartFileOrganizer.js) with its categorizer and
\* output manager
\* ------------------------------------------------------------ categorizer
\* the standard categories, in table order
categories ==
    <<
       <<"Documents",
         {"pdf", "doc", "docx", "txt", "rtf", "odt", "pages", "tex", "wpd",
          "md", "markdown"}>>,
       <<"Spreadsheets",
         {"xls", "xlsx", "csv", "ods", "numbers"}>>,
       <<"Presentations",
         {"ppt", "pptx", "odp", "key"}>>,
       <<"Images",
         {"jpg", "jpeg", "png", "gif", "bmp", "tiff", "tif", "svg", "webp",
          "ico", "raw", "cr2", "nef", "arw"}>>,
       <<"Videos",
         {"mp4", "avi", "mkv", "mov", "wmv", "flv", "webm", "m4v", "3gp",
          "mpg", "mpeg"}>>,
       <<"Audio",
         {"mp3", "wav", "flac", "aac", "ogg", "wma", "m4a", "opus"}>>,
       <<"Archives",
         {"zip", "rar", "7z", "tar", "gz", "bz2", "xz", "cab", "iso"}>>,
       <<"Code",
         {"js", "html", "css", "py", "java", "cpp", "c", "h", "php", "rb",
          "go", "rs", "swift", "kt"}>>,
       <<"Design",
         {"psd", "ai", "eps", "indd", "sketch", "fig", "xd", "cdr"}>>,
       <<"Fonts",
         {"ttf", "otf", "woff", "woff2", "eot"}>>,
       <<"Executables",
         {"exe", "msi", "dmg", "pkg", "deb", "rpm", "appimage"}>>,
       <<"Data",
         {"json", "xml", "yaml", "yml", "sql", "db", "sqlite"}>>,
       <<"Ebooks",
         {"epub", "mobi", "azw", "azw3", "fb2"}>>,
       <<"CAD",
         {"dwg", "dxf", "step", "stp", "iges", "igs"}>>,
       <<"Virtual",
         {"vmdk", "vdi", "vhd", "vhdx", "ova", "ovf"}>> >>

\* the special patterns, in table order: the words whose presence in the
\* name selects the category, the extensions that select it, and the parent
specialPatterns ==
    << [name |-> "Screenshots", words |-> {"screenshot", "capture"},
        exts |-> {}, parentCategory |-> "Images"],
       [name |-> "Downloads", words |-> {"download", "temp", "tmp"},
        exts |-> {}, parentCategory |-> ""],
       [name |-> "Backups", words |-> {"backup"},
        exts |-> {"bak", "old", "backup"}, parentCategory |-> ""],
       [name |-> "Logs", words |-> {},
        exts |-> {"log", "txt"}, parentCategory |-> "Documents"] >>

\* path.extname(fileName).toLowerCase().slice(1)
SmartExtension(n) ==
    LET ext == LowerName(ExtName(n)) IN IF ext = <<>> THEN <<>> ELSE Tail(ext)

PatternMatches(pattern, n) ==
    \/ \E i \in 1..Len(n) : Lower(n[i]) \in pattern.words
    \/ Len(n) >= 2 /\ n[Len(n) - 1] = "." /\ Lower(n[Len(n)]) \in pattern.exts
    \/ pattern.name = "Backups" /\ n # <<>> /\ Lower(n[Len(n)]) = "bak"

\* a categorizer that knows no special pattern
FirstPatternNone(n, i) == 0

RECURSIVE FirstPattern(_, _)
FirstPattern(n, i) ==
    IF i > Len(specialPatterns) THEN 0
    ELSE IF PatternMatches(specialPatterns[i], n) THEN i
    ELSE FirstPattern(n, i + 1)

RECURSIVE FirstCategory(_, _)
FirstCategory(extension, i) ==
    IF i > Len(categories) THEN 0
    ELSE IF Len(extension) = 1 /\ extension[1] \in categories[i][2] THEN i
    ELSE FirstCategory(extension, i + 1)

\* categorizeFile(filePath): special patterns first, then the standard
\* categories, then Other with the extension as subcategory
categorizeFile(filePath) ==
    LET fileName == Basename(filePath)
        extension == SmartExtension(fileName)
        sp == FirstPattern(fileName, 1)
        ct == FirstCategory(extension, 1)
    IN  IF sp # 0
        THEN [category |-> <<specialPatterns[sp].name>>,
              subcategory |-> IF specialPatterns[sp].parentCategory = "" THEN <<>>
                              ELSE <<specialPatterns[sp].parentCategory>>,
              isSpecial |-> TRUE]
        ELSE IF ct # 0
        THEN [category |-> <<categories[ct][1]>>, subcategory |-> <<>>,
              isSpecial |-> FALSE]
        ELSE [category |-> <<"Other">>,
              subcategory |-> IF extension = <<>> THEN NoExtension ELSE extension,
              isSpecial |-> FALSE]

getOrganizedPath(base, filePath, categorization) ==
    LET fileName == Basename(filePath)
    IN  IF categorization.isSpecial /\ categorization.subcategory # <<>>
        THEN base \o <<categorization.subcategory, categorization.category, fileName>>
        ELSE IF categorization.subcategory # <<>> /\ categorization.category = <<"Other">>
        THEN base \o <<categorization.category, categorization.subcategory, fileName>>
        ELSE base \o <<categorization.category, fileName>>

RECURSIVE EnsureDirs(_, _)
EnsureDirs(f, ps) ==
    IF ps = {} THEN f
    ELSE LET p == CHOOSE q \in ps : TRUE
         IN  EnsureDirs(IF EnsureDirOk(f, p) THEN EnsureDir(f, p) ELSE f, ps \ {p})

\* the folders createCategoryStructure(basePath) makes
CategoryFolders(base) ==
    { Append(base, <<categories[i][1]>>) : i \in 1..Len(categories) }
    \cup { IF specialPatterns[i].parentCategory # ""
           THEN base \o << <<specialPatterns[i].parentCategory>>, <<specialPatterns[i].name>> >>
           ELSE Append(base, <<specialPatterns[i].name>>) : i \in 1..Len(specialPatterns) }
    \cup { Append(base, <<"Other">>) }

\* createCategoryStructure succeeds when every ensureDir does
createCategoryStructureOk(f, base) == \A p \in CategoryFolders(base) : EnsureDirOk(f, p)

createCategoryStructure(f, base) == EnsureDirs(f, CategoryFolders(base))

\* --------------------------------------------------------- output manager
ReadmeContent == Plain(TextBytes, "README")
ReportContent == Plain(TextBytes, "report")

StructureOf(outputPath) ==
    [set |-> TRUE, outputPath |-> outputPath,
     categoriesPath |-> Append(outputPath, <<"Categories">>),
     archivesPath |-> Append(outputPath, <<"Archives">>),
     reportsPath |-> Append(outputPath, <<"Reports">>)]

ReadmePath(outputPath) == Append(outputPath, <<"README", ".", "md">>)

\* createOutputStructure(outputPath, sourcePaths) runs to its end when the
\* four ensureDir calls and the writeFile of README.md succeed
createOutputStructureOk(f, outputPath) ==
    /\ \A d \in {"Categories", "Archives", "Reports"} :
         EnsureDirOk(f, Append(outputPath, <<d>>))
    /\ ~IsDirectory(f, ReadmePath(outputPath))

createOutputStructure(f, outputPath) ==
    WriteFile(EnsureDirs(f, { Append(outputPath, <<d>>) :
                                d \in {"Categories", "Archives", "Reports"} }),
              ReadmePath(outputPath), ReadmeContent)

\* ---------------------------------------------------- the scanning phase
\* the characters of a path, "/" between its names
RECURSIVE Flatten(_)
Flatten(p) ==
    IF p = <<>> THEN <<>> ELSE <<"/">> \o Head(p) \o Flatten(Tail(p))

\* String.prototype.startsWith on paths
StartsWith(p, q) == IsPrefix(Flatten(q), Flatten(p))

systemDirs ==
    { <<"System Volume Information">>, <<"$RECYCLE", ".", "BIN">>,
      <<"node_modules">>, <<".", "git">> }

\* config.filters.excludeHidden of the default configuration
excludeHidden == TRUE

shouldSkipDirectory(structure, dirPath) ==
    LET dirName == Basename(dirPath)
    IN  \/ excludeHidden /\ dirName # <<>> /\ dirName[1] = "."
        \/ dirName \in systemDirs
        \/ structure.set /\ StartsWith(dirPath, structure.outputPath)

\* the size and extension filters of the default configuration are off
shouldIncludeFile(filePath) ==
    LET fileName == Basename(filePath)
    IN  ~(excludeHidden /\ fileName # <<>> /\ fileName[1] = ".")

\* this.stats, and the number of errors the error handler has recorded
SmartZeroStats ==
    [filesProcessed |-> 0, archivesExtracted |-> 0, errors |-> 0, handled |-> 0]

\* ----------------------------------------------------- Smart initial trees
MaxSmartFiles == 2
MaxConcurrent == 2

SmartOut == <<"Smart_Organized">>

SmartDirectories == << <<A>> >>

SmartCandidates ==
    { [p |-> <<A, nm("a", "jpg")>>, c |-> Plain(JpegSig, "f1")],
      [p |-> <<A, Sub, nm("a", "jpg")>>, c |-> Plain(JpegSig, "f2")],
      [p |-> <<A, nm("n", "txt")>>, c |-> Plain(TextBytes, "f3")],
      [p |-> <<A, nm("z", "zip")>>, c |-> Plain(ZipSig, "f4")],
      [p |-> <<A, nm("q", "xyz")>>, c |-> Plain(TextBytes, "f5")],
      [p |-> <<A, <<".", "git">>, nm("c", "js")>>, c |-> Plain(TextBytes, "f6")],
      [p |-> <<A, SmartOut, <<"Categories">>, <<"Images">>, nm("a", "jpg")>>,
       c |-> Plain(JpegSig, "f7")],
      [p |-> <<A, <<"Screenshot", "_", "tmp", ".", "PNG">>>>, c |-> Plain(PngSig, "f8")],
      [p |-> <<A, <<"readme">>>>, c |-> Plain(TextBytes, "f9")] }

SmartTrees == { S \in SUBSET SmartCandidates : Cardinality(S) <= MaxSmartFiles }

SmartSessions == { <<TRUE, FALSE>>, <<FALSE, FALSE>> }

\* outputPath lies inside the source, as in the dry-run demo; the other
\* values are those of the default configuration, except the size of a chunk
SmartOptions ==
    [outputPath : {<<A, SmartOut>>},
     handleDuplicates : {"rename", "skip"},
     extractArchives : {TRUE},
     useSmartCategories : {TRUE},
     maxConcurrentFiles : 1..MaxConcurrent]

SmartInit ==
    /\ InitWith(SmartTrees, SmartOptions, SmartSessions)

\* ------------------------------------------------------------ Smart actions
\* new SmartFileOrganizer(options), then organizeDirectories begins
SmartNewOrganizer ==
    /\ phase = "idle"
    /\ session # <<>>
    /\ dryRun' = Head(session)
    /\ session' = Tail(session)
    /\ run' = run + 1
    /\ stats' = SmartZeroStats
    /\ outputStructure' = NoStructure
    /\ allFiles' = <<>>
    /\ chunks' = <<>>
    /\ procs' = <<>>
    /\ todo' = SmartDirectories
    /\ phase' = "scanning"
    /\ UNCHANGED <<fs, fs0, opts, basePath, stack, copies, visited, statsLog,
                   last, lastArch>>

\* scanDirectories: the next directory of the list
scanDirectories ==
    /\ phase = "scanning"
    /\ stack = <<>>
    /\ todo # <<>>
    /\ stack' = EnterDirectory(stack, fs, Head(todo))
    /\ visited' = EnterVisit(visited, fs, Head(todo), Head(todo), run)
    /\ stats' = [stats EXCEPT !.handled = @ + EnterErrors(fs, Head(todo))]
    /\ basePath' = Head(todo)
    /\ todo' = Tail(todo)
    /\ UNCHANGED <<fs, fs0, opts, session, run, phase, dryRun, copies,
                   statsLog, last, lastArch, smartVars>>

SmartScanning == phase = "scanning" /\ stack # <<>>

\* the order of the names readdir returned: one fixed order per directory
\* (analyzeFiles sorts the result of the scan again before it is processed)
NextItem(items) == CHOOSE item \in items : TRUE

\* scanDirectoryRecursive: one entry of the directory being read
scanDirectoryRecursive ==
    /\ SmartScanning
    /\ Top.items # {}
    /\ \E item \in {NextItem(Top.items)} :
         \E itemPath \in {Append(Top.dir, item)} :
           IF IsDirectory(fs, itemPath)
           THEN IF shouldSkipDirectory(outputStructure, itemPath)
                THEN /\ stack' = Rest(item)
                     /\ UNCHANGED <<visited, allFiles, stats>>
                ELSE /\ stack' = EnterDirectory(Rest(item), fs, itemPath)
                     /\ visited' = EnterVisit(visited, fs, itemPath, basePath, run)
                     /\ stats' = [stats EXCEPT !.handled = @ + EnterErrors(fs, itemPath)]
                     /\ UNCHANGED allFiles
           ELSE IF IsFile(fs, itemPath)
           THEN /\ stack' = Rest(item)
                /\ allFiles' = IF shouldIncludeFile(itemPath)
                               THEN Append(allFiles, itemPath)
                               ELSE allFiles
                /\ UNCHANGED <<visited, stats>>
           ELSE /\ stack' = Rest(item)
                /\ stats' = [stats EXCEPT !.handled = @ + 1]
                /\ UNCHANGED <<visited, allFiles>>
    /\ UNCHANGED <<fs, fs0, opts, session, run, phase, dryRun, todo, basePath,
                   copies, statsLog, last, lastArch, outputStructure,
                   chunks, procs>>

\* scanDirectoryRecursive returns its files
scanDirectoryRecursiveReturn ==
    /\ SmartScanning
    /\ Top.items = {}
    /\ stack' = Pop
    /\ UNCHANGED <<fs, fs0, opts, session, run, phase, dryRun, todo, basePath,
                   stats, copies, visited, statsLog, last, lastArch, smartVars>>

\* a chunking that repeats the last file of a chunk at the head of the next
RECURSIVE chunkArrayOverlapping(_, _)
chunkArrayOverlapping(array, chunkSize) ==
    IF array = <<>> THEN <<>>
    ELSE IF Len(array) <= chunkSize THEN <<array>>
    ELSE <<SubSeq(array, 1, chunkSize)>>
         \o chunkArrayOverlapping(SubSeq(array, chunkSize, Len(array)), chunkSize + 1)

\* chunkArray(array, chunkSize)
RECURSIVE chunkArray(_, _)
chunkArray(array, chunkSize) ==
    IF array = <<>> THEN <<>>
    ELSE IF Len(array) <= chunkSize THEN <<array>>
    ELSE <<SubSeq(array, 1, chunkSize)>>
         \o chunkArray(SubSeq(array, chunkSize + 1, Len(array)), chunkSize)

\* the run is over: its stats are kept and the next run may start
EndOfRun ==
    /\ statsLog' = Append(statsLog, [dry |-> dryRun, stats |-> stats])
    /\ phase' = IF session = <<>> THEN "done" ELSE "idle"

\* organizeDirectories after the scan: nothing to do when no file was found,
\* otherwise setupOutputStructure (it has no dryRun test); an exception of
\* it ends the run
setupOutputStructure ==
    /\ phase = "scanning"
    /\ stack = <<>>
    /\ todo = <<>>
    /\ IF allFiles = <<>>
       THEN /\ EndOfRun
            /\ UNCHANGED <<fs, outputStructure, chunks>>
       ELSE IF createOutputStructureOk(fs, opts.outputPath)
       THEN \E f1 \in {createOutputStructure(fs, opts.outputPath)} :
            \E st \in {StructureOf(opts.outputPath)} :
              /\ outputStructure' = st
              /\ IF createCategoryStructureOk(f1, st.categoriesPath)
                 THEN /\ fs' = createCategoryStructure(f1, st.categoriesPath)
                      /\ chunks' = chunkArray(allFiles, opts.maxConcurrentFiles)
                      /\ phase' = "organizing"
                      /\ UNCHANGED statsLog
                 ELSE /\ fs' = f1
                      /\ EndOfRun
                      /\ UNCHANGED chunks
       ELSE /\ EndOfRun
            /\ UNCHANGED <<fs, outputStructure, chunks>>
    /\ UNCHANGED <<fs0, opts, session, run, dryRun, todo, basePath, stack,
                   stats, copies, visited, last, lastArch, allFiles, procs>>

AllDone == \A i \in 1..Len(procs) : procs[i].pc = "done"

\* processFile(file) up to its first await: the nominal target path is
\* computed and handleDuplicates has asked whether it exists
StartProcessFile(file) ==
    [file |-> file, pc |-> "check", counter |-> 0,
     categorization |-> categorizeFile(file),
     targetPath |-> getOrganizedPath(outputStructure.categoriesPath, file,
                                     categorizeFile(file))]

\* processFiles: Promise.all over the next chunk, once the previous is done
processFiles ==
    /\ phase = "organizing"
    /\ AllDone
    /\ chunks # <<>>
    /\ procs' = [i \in 1..Len(Head(chunks)) |-> StartProcessFile(Head(chunks)[i])]
    /\ chunks' = Tail(chunks)
    /\ UNCHANGED <<fs, fs0, opts, session, run, phase, dryRun, todo, basePath,
                   stack, stats, copies, visited, statsLog, last, lastArch,
                   outputStructure, allFiles>>

\* handleDuplicates(targetPath), the answer of its first pathExists
handleDuplicates ==
    /\ phase = "organizing"
    /\ \E i \in 1..Len(procs) :
         /\ procs[i].pc = "check"
         /\ procs' =
              IF ~pathExists(fs, procs[i].targetPath)
              THEN [procs EXCEPT ![i].pc = "copy"]
              ELSE CASE opts.handleDuplicates = "skip" ->
                          [procs EXCEPT ![i].pc = "copy", ![i].targetPath = NullPath]
                     [] opts.handleDuplicates = "overwrite" ->
                          [procs EXCEPT ![i].pc = "copy"]
                     [] OTHER ->
                          [procs EXCEPT ![i].pc = "probe", ![i].counter = 1]
    /\ UNCHANGED <<fs, fs0, opts, session, run, phase, dryRun, todo, basePath,
                   stack, stats, copies, visited, statsLog, last, lastArch,
                   outputStructure, allFiles, chunks>>

\* path.join(dir, `${base}_${counter}${ext}`)
RenamedPath(targetPath, counter) ==
    Append(Dirname(targetPath), Suffixed(Basename(targetPath), counter))

\* handleDuplicates, one turn of its do-while loop: the answer of pathExists
\* for the next candidate
handleDuplicatesProbe ==
    /\ phase = "organizing"
    /\ \E i \in 1..Len(procs) :
         /\ procs[i].pc = "probe"
         /\ \E newPath \in {RenamedPath(procs[i].targetPath, procs[i].counter)} :
              procs' =
                IF pathExists(fs, newPath)
                THEN [procs EXCEPT ![i].counter = @ + 1]
                ELSE [procs EXCEPT ![i].pc = "copy", ![i].targetPath = newPath]
    /\ UNCHANGED <<fs, fs0, opts, session, run, phase, dryRun, todo, basePath,
                   stack, stats, copies, visited, statsLog, last, lastArch,
                   outputStructure, allFiles, chunks>>

IsArchiveCategory(file) ==
    categorizeFile(file).category = <<"Archives">> /\ opts.extractArchives

\* the statistics of a processFile call that reached its end
SmartProcessed(st, file) ==
    [st EXCEPT !.filesProcessed = @ + 1,
               !.archivesExtracted = @ + (IF IsArchiveCategory(file) THEN 1 ELSE 0)]

\* the catch of processFile
SmartFailed(st) == [st EXCEPT !.errors = @ + 1, !.handled = @ + 1]

\* processFile after handleDuplicates: ensureDir and fs.copy unless this is
\* a preview, then the statistics; path.dirname(null) throws
processFile ==
    /\ phase = "organizing"
    /\ \E i \in 1..Len(procs) :
         \E file \in {procs[i].file}, targetPath \in {procs[i].targetPath} :
           /\ procs[i].pc = "copy"
           /\ procs' = [procs EXCEPT ![i].pc = "done"]
           /\ IF dryRun
              THEN /\ stats' = SmartProcessed(stats, file)
                   /\ UNCHANGED <<fs, copies>>
              ELSE IF targetPath # NullPath /\ CopyOk(fs, file, targetPath)
              THEN /\ fs' = Copy(fs, file, targetPath)
                   /\ copies' = Append(copies, CopyEvent(file, targetPath, fs, run))
                   /\ stats' = SmartProcessed(stats, file)
              ELSE /\ fs' = IF targetPath # NullPath /\ EnsureDirOk(fs, Dirname(targetPath))
                            THEN EnsureDir(fs, Dirname(targetPath)) ELSE fs
                   /\ stats' = SmartFailed(stats)
                   /\ UNCHANGED copies
    /\ UNCHANGED <<fs0, opts, session, run, phase, dryRun, todo, basePath,
                   stack, visited, statsLog, last, lastArch,
                   outputStructure, allFiles, chunks>>

ReportPath(structure) ==
    Append(structure.reportsPath, <<"organization-report", ".", "json">>)

ErrorReportPath(structure) == Append(structure.reportsPath, <<"errors", ".", "json">>)

CanWrite(f, p) == IsDirectory(f, Dirname(p)) /\ ~IsDirectory(f, p)

\* generateReports (it has no dryRun test), then the end of the run; an
\* exception of the first writeJson ends the run as well
generateReports ==
    /\ phase = "organizing"
    /\ AllDone
    /\ chunks = <<>>
    /\ \E f1 \in {IF CanWrite(fs, ReportPath(outputStructure))
                  THEN WriteFile(fs, ReportPath(outputStructure), ReportContent)
                  ELSE fs} :
         fs' = IF /\ CanWrite(fs, ReportPath(outputStructure))
                  /\ stats.handled > 0
                  /\ CanWrite(f1, ErrorReportPath(outputStructure))
               THEN WriteFile(f1, ErrorReportPath(outputStructure), ReportContent)
               ELSE f1
    /\ EndOfRun
    /\ UNCHANGED <<fs0, opts, session, run, dryRun, todo, basePath, stack,
                   stats, copies, visited, last, lastArch, smartVars>>

SmartNext ==
    \/ SmartNewOrganizer
    \/ scanDirectories
    \/ scanDirectoryRecursive
    \/ scanDirectoryRecursiveReturn
    \/ setupOutputStructure
    \/ processFiles
    \/ handleDuplicates
    \/ handleDuplicatesProbe
    \/ processFile
    \/ generateReports

SpecSmart == SmartInit /\ [][SmartNext]_vars

\* =========================================================================
\* SimpleOrganizer (src/organize.js): every input folder is organized into
\* one folder of the current working directory
OrganizedFiles == <<"organized_files">>

\* the current working directory of the process
Cwd == <<A>>

\* path.resolve(outputName)
SimpleOutputPath == Append(Cwd, opts.outputName)

\* path.join(outputDir, '..', 'temp_extract')
SimpleTempDir(outputDir) == Append(Dirname(outputDir), TempExtract)

MaxSimpleFiles == 3

SimpleCandidates ==
    { [p |-> <<A, nm("a", "jpg")>>, c |-> Plain(JpegSig, "f1")],
      [p |-> <<A, Sub, nm("a", "jpg")>>, c |-> Plain(JpegSig, "f2")],
      [p |-> <<A, Sub, nm("n", "txt")>>, c |-> Plain(TextBytes, "f3")],
      [p |-> <<A, OrganizedFiles, <<"jpg">>, nm("a", "jpg")>>,
       c |-> Plain(JpegSig, "f4")],
      [p |-> <<A, Sub, nm("z", "zip")>>,
       c |-> [bytes |-> ZipSig, id |-> "z", arc |-> "zip",
              ents |-> {[p |-> <<nm("b", "png")>>, c |-> Plain(PngSig, "e1"),
                         stream |-> "ok"]}]],
      [p |-> <<A, Sub, nm("m", "zip")>>,
       c |-> [bytes |-> ZipSig, id |-> "m", arc |-> "none", ents |-> {}]],
      [p |-> <<A, Locked>>, c |-> Denied] }

SimpleTrees == { S \in SUBSET SimpleCandidates : Cardinality(S) <= MaxSimpleFiles }

\* the folders given on the command line: "." (the working directory
\* itself), a folder below it, or both a missing folder and a folder
SimpleOptions ==
    [inputPaths : { << <<A>> >>, << <<A, Sub>> >>, << <<A, <<"none">>>>, <<A, Sub>> >> },
     outputName : {OrganizedFiles}]

SimpleInit == InitWith(SimpleTrees, SimpleOptions, { <<FALSE>> })

\* the folders of inputPaths that exist and are directories
RECURSIVE ValidPaths(_, _)
ValidPaths(f, inputPaths) ==
    IF inputPaths = <<>> THEN <<>>
    ELSE (IF IsDirectory(f, Head(inputPaths)) THEN <<Head(inputPaths)>> ELSE <<>>)
         \o ValidPaths(f, Tail(inputPaths))

\* organizeFolders(inputPaths) up to the call of organizeToRoot; confirm is
\* the answer to "Continue? (y/n)"
organizeFolders ==
    /\ phase = "idle"
    /\ session # <<>>
    /\ session' = Tail(session)
    /\ run' = run + 1
    /\ stats' = ZeroStats
    /\ \E confirm \in BOOLEAN :
         IF confirm /\ ValidPaths(fs, opts.inputPaths) # <<>>
         THEN /\ todo' = ValidPaths(fs, opts.inputPaths)
              /\ phase' = "simple"
         ELSE /\ todo' = <<>>
              /\ phase' = "done"
    /\ UNCHANGED <<fs, fs0, opts, dryRun, basePath, stack, copies, visited,
                   statsLog, last, lastArch, smartVars>>

\* organizeToRoot: the next input folder; an exception of
\* processDirectoryToRoot is counted here
organizeToRoot ==
    /\ phase = "simple"
    /\ stack = <<>>
    /\ todo # <<>>
    /\ stack' = EnterDirectory(stack, fs, Head(todo))
    /\ stats' = [stats EXCEPT !.errors = @ + EnterErrors(fs, Head(todo))]
    /\ visited' = EnterVisit(visited, fs, Head(todo), Head(todo), run)
    /\ basePath' = Head(todo)
    /\ todo' = Tail(todo)
    /\ UNCHANGED <<fs, fs0, opts, session, run, phase, dryRun, copies,
                   statsLog, last, lastArch, smartVars>>

\* the end of organizeToRoot: the summary
SimpleSummary ==
    /\ phase = "simple"
    /\ stack = <<>>
    /\ todo = <<>>
    /\ EndOfRun
    /\ UNCHANGED <<fs, fs0, opts, session, run, dryRun, todo, basePath, stack,
                   stats, copies, visited, last, lastArch, smartVars>>

SimpleScanning == phase = "simple" /\ stack # <<>> /\ Top.k = "scan"

\* an exception leaves every pending processDirectoryToRoot up to the
\* nearest processFileToRoot (its catch counts it) or up to organizeToRoot
RECURSIVE Unwind(_)
Unwind(stk) ==
    IF stk = <<>> THEN <<>>
    ELSE IF stk[Len(stk)].k = "arch" THEN SubSeq(stk, 1, Len(stk) - 1)
    ELSE Unwind(SubSeq(stk, 1, Len(stk) - 1))

\* processDirectoryToRoot, an entry that is a directory: it is walked,
\* whatever its name; a failing stat throws, and so does the readdir of a
\* directory that cannot be listed
processDirectoryToRoot ==
    /\ SimpleScanning
    /\ \E item \in Top.items :
         \E itemPath \in {Append(Top.dir, item)} :
           /\ ~IsFile(fs, itemPath)
           /\ IF ~ReaddirOk(fs, itemPath)
              THEN /\ stack' = Unwind(Rest(item))
                   /\ stats' = [stats EXCEPT !.errors = @ + 1]
                   /\ UNCHANGED visited
              ELSE /\ stack' = EnterDirectory(Rest(item), fs, itemPath)
                   /\ visited' = EnterVisit(visited, fs, itemPath, basePath, run)
                   /\ UNCHANGED stats
    /\ UNCHANGED <<fs, fs0, opts, session, run, phase, dryRun, todo, basePath,
                   copies, statsLog, last, lastArch, smartVars>>

\* the tail of processFileToRoot: ensureDir(targetDir), the duplicate loop,
\* fs.copy and the counter; the catch counts a failure
SimplePlace(w, filePath, outputDir, r) ==
    LET targetDir == Append(outputDir,
                            getFolderNameForExtension(getFileExtension(Basename(filePath))))
        f1 == EnsureDir(w.fs, targetDir)
        targetPath == FinalTargetPath(f1, targetDir, Basename(filePath))
    IN  IF ~EnsureDirOk(w.fs, targetDir)
        THEN [w EXCEPT !.stats.errors = @ + 1]
        ELSE IF ~CopyOk(f1, filePath, targetPath)
        THEN [w EXCEPT !.fs = f1, !.stats.errors = @ + 1]
        ELSE [w EXCEPT !.fs = Copy(f1, filePath, targetPath),
                       !.stats.filesProcessed = @ + 1,
                       !.copies = Append(@, CopyEvent(filePath, targetPath, f1, r)),
                       !.ret = targetPath]

SimpleIsArchive(itemPath) == isArchiveFile(getFileExtension(Basename(itemPath)))

\* processFileToRoot for a file that is not an archive
processFileToRoot ==
    /\ SimpleScanning
    /\ \E item \in Top.items :
         \E itemPath \in {Append(Top.dir, item)} :
           /\ IsFile(fs, itemPath)
           /\ ~SimpleIsArchive(itemPath)
           /\ \E w \in {IF ~isAllowedFileType(getFileExtension(Basename(itemPath)))
                        THEN [Here EXCEPT !.stats.skippedFiles = @ + 1]
                        ELSE SimplePlace(Here, itemPath, SimpleOutputPath, run)} :
                /\ fs' = w.fs
                /\ stats' = w.stats
                /\ copies' = w.copies
           /\ stack' = Rest(item)
    /\ UNCHANGED <<fs0, opts, session, run, phase, dryRun, todo, basePath,
                   visited, statsLog, last, lastArch, smartVars>>

\* processFileToRoot for an archive, up to the walk of the extracted
\* directory; the organizer that extracts is a throw-away one, its counters
\* are lost
processArchiveToRoot ==
    /\ SimpleScanning
    /\ \E item \in Top.items, tool \in BOOLEAN :
         \E itemPath \in {Append(Top.dir, item)} :
           /\ IsFile(fs, itemPath)
           /\ SimpleIsArchive(itemPath)
           /\ \E x \in {extractArchive(Here, itemPath, SimpleTempDir(SimpleOutputPath),
                                       FALSE, tool)} :
                CASE x.out = "ok" ->
                       /\ fs' = x.fs
                       /\ stats' = [stats EXCEPT !.archivesExtracted = @ + 1]
                       /\ stack' = EnterDirectory(
                                      Append(Rest(item), ArchFrame(itemPath, x.ret, PreOf(Here))),
                                      x.fs, x.ret)
                       /\ visited' = EnterVisit(visited, x.fs, x.ret, basePath, run)
                       /\ UNCHANGED <<copies, phase>>
                  [] x.out = "fail" ->
                       \E w \in {SimplePlace([Here EXCEPT !.fs = x.fs], itemPath,
                                             SimpleOutputPath, run)} :
                         /\ fs' = w.fs
                         /\ stats' = w.stats
                         /\ copies' = w.copies
                         /\ stack' = Rest(item)
                         /\ UNCHANGED <<visited, phase>>
                  [] OTHER ->
                       /\ fs' = x.fs
                       /\ phase' = "stalled"
                       /\ UNCHANGED <<stats, stack, copies, visited>>
    /\ UNCHANGED <<fs0, opts, session, run, dryRun, todo, basePath, statsLog,
                   last, lastArch, smartVars>>

\* processDirectoryToRoot returns
processDirectoryToRootReturn ==
    /\ SimpleScanning
    /\ Top.items = {}
    /\ stack' = Pop
    /\ UNCHANGED <<fs, fs0, opts, session, run, phase, dryRun, todo, basePath,
                   stats, copies, visited, statsLog, last, lastArch, smartVars>>

\* processFileToRoot for an archive, after the walk of the extracted
\* directory: fs.remove(extractedPath), then the copy of the archive
processArchiveToRootFinish ==
    /\ phase = "simple"
    /\ stack # <<>>
    /\ Top.k = "arch"
    /\ \E w \in {SimplePlace([Here EXCEPT !.fs = Remove(fs, Top.dir)], Top.arch,
                             SimpleOutputPath, run)} :
         /\ fs' = w.fs
         /\ stats' = w.stats
         /\ copies' = w.copies
    /\ stack' = Pop
    /\ UNCHANGED <<fs0, opts, session, run, phase, dryRun, todo, basePath,
                   visited, statsLog, last, lastArch, smartVars>>

SimpleNext ==
    \/ organizeFolders
    \/ organizeToRoot
    \/ processDirectoryToRoot
    \/ processFileToRoot
    \/ processArchiveToRoot
    \/ processDirectoryToRootReturn
    \/ processArchiveToRootFinish
    \/ SimpleSummary

SpecSimple == SimpleInit /\ [][SimpleNext]_vars

\* ------------------------------------------------------------ properties
\* the destination root of a scanDirectory tree
DestinationRoot(base) == base \o opts.outputDir

UnderSomeDestination(p) == \E i \in 1..Len(Directories) : IsPrefix(DestinationRoot(Directories[i]), p)

\* C1: in a real (non-preview) FileOrganizer run no copy is made onto a
\* path that exists at the moment of the copy: no two copies of one run have
\* the same destination and every file that was in a destination before the
\* session is still there with its content
C1_NoCopyOntoExistingPath ==
    /\ \A i \in 1..Len(copies) : ~copies[i].existed
    /\ \A i, j \in 1..Len(copies) :
         (i # j /\ copies[i].run = copies[j].run) => copies[i].dst # copies[j].dst
    /\ \A p \in DOMAIN fs0 :
         (IsFile(fs0, p) /\ UnderSomeDestination(p)) => (IsFile(fs, p) /\ fs[p] = fs0[p])

\* C1 witness: the nominal path and name_1 were taken (one of them before
\* the run), and a third file of the same name went to name_2
C1_Witness ==
    /\ IsFile(fs0, <<A, Out, <<"jpg">>, nm("a", "jpg")>>)
    /\ \E i, j \in 1..Len(copies) :
         /\ i < j
         /\ copies[i].dst = <<A, Out, <<"jpg">>, Suffixed(nm("a", "jpg"), 1)>>
         /\ copies[j].dst = <<A, Out, <<"jpg">>, Suffixed(nm("a", "jpg"), 2)>>
         /\ copies[i].id # copies[j].id

\* the nominal destination path processFile computes for a file
NominalPath(file) ==
    getOrganizedPath(outputStructure.categoriesPath, file, categorizeFile(file))

\* the processFile call i of the current chunk has copied its file
HasCopied(i) ==
    /\ procs[i].pc = "done"
    /\ \E k \in 1..Len(copies) :
         /\ copies[k].run = run
         /\ copies[k].src = procs[i].file
         /\ copies[k].dst = procs[i].targetPath

\* C2: with handleDuplicates = 'rename', two files of one parallel batch
\* that have the same nominal destination path are never copied to the same
\* final path, whatever the interleaving of their processFile calls
C2_BatchNeverSharesFinalPath ==
    (phase = "organizing" /\ ~dryRun /\ opts.handleDuplicates = "rename") =>
       \A i, j \in 1..Len(procs) :
          (/\ i # j
           /\ HasCopied(i)
           /\ HasCopied(j)
           /\ NominalPath(procs[i].file) = NominalPath(procs[j].file))
          => procs[i].targetPath # procs[j].targetPath

\* the destination root the walk that enumerated v copies into
DestinationOfVisit(v) ==
    IF "outputName" \in DOMAIN opts THEN SimpleOutputPath
    ELSE DestinationRoot(v.base)

\* C3: the allow-list walkers (scanDirectory, processDirectoryToRoot) never
\* enumerate the destination root or a directory below it as a source
C3_DestinationNeverEnumerated ==
    \A v \in visited : ~IsPrefix(DestinationOfVisit(v), v.dir)

\* a file the first run wrote under outputPath
IsOutputOfFirstRun(p) == IsPrefix(opts.outputPath, p) /\ p \notin DOMAIN fs0

\* C4: when SmartFileOrganizer runs twice in a row over the same source with
\* outputPath inside it, the scan phase of the second run returns no file
\* the first run wrote under outputPath
C4_SecondScanSkipsOutput ==
    (run = 2 /\ ~statsLog[1].dry) =>
       \A i \in 1..Len(allFiles) : ~IsOutputOfFirstRun(allFiles[i])

\* the type copyFileToOrganizedLocation resolves for an archive entry
EntryType(e) ==
    IF FirstSignature(e.c.bytes, 1) # <<>> /\ isAllowedFileType(FirstSignature(e.c.bytes, 1))
    THEN FirstSignature(e.c.bytes, 1)
    ELSE getFileExtension(Basename(e.p))

AllEntriesPlaceable(c) ==
    \A e \in c.ents : isAllowedFileType(EntryType(e)) /\ ~isArchiveFile(EntryType(e))

\* the copies a finished call made
CopiesOf(call) ==
    { i \in 1..Len(copies) : call.pre.ncopies < i /\ i <= call.post.ncopies }

\* the finished handleArchiveFile call was a real run's call on a zip archive
\* that was extracted and whose entries are all of allowed non-archive types
ZipOfPlaceableEntries(call) ==
    /\ call.op = "archive"
    /\ ~call.dry
    /\ call.out = "ok"
    /\ getFileExtension(Basename(call.path)) = <<"zip">>
    /\ AllEntriesPlaceable(call.pre.fs[call.path].c)

\* C5: a zip archive whose N entries are all files of allowed non-archive
\* types gives exactly N placed files plus the archive placed once under
\* zip/; archivesExtracted grows by 1 and filesProcessed by N + 1
C5_ZipRoundTrip ==
    ZipOfPlaceableEntries(lastArch) =>
       LET N == Cardinality(lastArch.pre.fs[lastArch.path].c.ents)
           made == CopiesOf(lastArch)
       IN  /\ Cardinality(made) = N + 1
           /\ Cardinality({i \in made : copies[i].src = lastArch.path}) = 1
           /\ \A i \in made : copies[i].src = lastArch.path =>
                Dirname(copies[i].dst) = Append(DestinationRoot(lastArch.base), <<"zip">>)
           /\ \A e \in lastArch.pre.fs[lastArch.path].c.ents :
                \E i \in made :
                   /\ copies[i].id = e.c.id
                   /\ Dirname(copies[i].dst) = Append(DestinationRoot(lastArch.base), EntryType(e))
           /\ lastArch.post.stats.archivesExtracted = lastArch.pre.stats.archivesExtracted + 1
           /\ lastArch.post.stats.filesProcessed = lastArch.pre.stats.filesProcessed + N + 1

\* the most recent copyFileToOrganizedLocation call was given a file whose
\* resolved extension is outside allowedFileTypes
LastCopyUnsupported ==
    /\ last.op = "copy"
    /\ ~isAllowedFileType(ResolvedExtension(last.pre.fs, last.path))

\* C6: for a file whose resolved extension is not in allowedFileTypes,
\* copyFileToOrganizedLocation copies nothing and creates no folder, returns
\* null, adds exactly 1 to skippedFiles and leaves filesProcessed and errors
C6_UnsupportedIsSkipped ==
    LastCopyUnsupported =>
       /\ last.post.fs = last.pre.fs
       /\ last.post.ncopies = last.pre.ncopies
       /\ last.ret = NullPath
       /\ last.post.stats.skippedFiles = last.pre.stats.skippedFiles + 1
       /\ last.post.stats.filesProcessed = last.pre.stats.filesProcessed
       /\ last.post.stats.errors = last.pre.stats.errors
       /\ last.post.stats.archivesExtracted = last.pre.stats.archivesExtracted

\* C6 witness: a real run skipped the text file n.txt after it had already
\* placed another file
C6_Witness ==
    /\ LastCopyUnsupported
    /\ ~last.dry
    /\ last.path = <<A, nm("n", "txt")>>
    /\ last.pre.stats.filesProcessed > 0
    /\ stats.skippedFiles > 0

\* the types of the signature table whose signature the bytes match
MatchingTypes(bytes) ==
    { <<signatures[i][1]>> : i \in {j \in 1..Len(signatures) : SigMatches(signatures[j][2], bytes)} }

\* the most recent copyFileToOrganizedLocation call was a real run's call
\* that returned the path it copied the file to
LastCopyPlaced == last.op = "copy" /\ ~last.dry /\ last.ret # NullPath

LastBytes == last.pre.fs[last.path].c.bytes

LastExtension == getFileExtension(Basename(last.path))

\* name, or name with the suffix _k of the duplicate loop
IsNameOrSuffixed(n, name) ==
    \/ n = name
    \/ \E k \in 1..(MaxFiles + MaxEntries + 1) : n = Suffixed(name, k)

\* the file went under the folder of type S as <base>.S
PlacedAs(S, base) ==
    /\ Dirname(last.ret) = Append(DestinationRoot(last.base), S)
    /\ IsNameOrSuffixed(Basename(last.ret), base \o <<".">> \o S)
    /\ \E i \in 1..Len(copies) :
          /\ last.pre.ncopies < i /\ i <= last.post.ncopies
          /\ copies[i].dst = last.ret
          /\ copies[i].src = last.path

\* C7 as stated: for every recognized type S whose signature the leading
\* bytes match and every recognized name extension E # S, the file is placed
\* under the S folder with its extension rewritten to .S
C7_PlacedUnderEveryMatchingType ==
    LastCopyPlaced =>
       \A S \in MatchingTypes(LastBytes) :
          (S # LastExtension /\ isAllowedFileType(S) /\ isAllowedFileType(LastExtension))
          => PlacedAs(S, sanitizeFileName(ParseName(Basename(last.path))))

\* C7 amended: S is the first type of the signature table whose signature
\* the leading bytes match (JPEG bytes give jpg, never jpeg); when S is
\* allowed and differs from the lower-cased name extension (recognized or
\* not), a real run that returns a path has copied the file under the S
\* folder as sanitizeFileName(<base>.S), with _k before the extension when
\* that name was taken
C7_PlacedUnderFirstMatchingType ==
    LastCopyPlaced =>
       LET S == FirstSignature(LastBytes, 1)
       IN  (S # <<>> /\ S # LastExtension /\ isAllowedFileType(S))
           => PlacedAs(S, ParseName(sanitizeFileName(
                             ParseName(Basename(last.path)) \o <<".">> \o S)))

\* C7 witness: in a real run the JPEG file j.txt went to jpg/j.jpg and then
\* the JPEG file "k:.PNG" to jpg/k_.jpg
C7_Witness ==
    /\ LastCopyPlaced
    /\ last.path = <<A, <<"k", ":", ".", "PNG">>>>
    /\ last.ret = <<A, Out, <<"jpg">>, <<"k", "_", ".", "jpg">>>>
    /\ \E i \in 1..Len(copies) :
          /\ copies[i].src = <<A, nm("j", "txt")>>
          /\ copies[i].dst = <<A, Out, <<"jpg">>, nm("j", "jpg")>>

\* C8: a dry-run (preview) organizeDirectories changes nothing on the
\* filesystem: during and after a preview that is the first run of the
\* session the filesystem is the initial one
C8_DryRunChangesNothing ==
    (run = 1 /\ dryRun) => fs = fs0

\* C9: the final counters of a dry-run FileOrganizer run equal those of the
\* real run over the same tree and the same initial destination (the
\* preview leaves the filesystem as it was, the real run follows it)
C9_DryRunCountersEqualRealRun ==
    (phase = "done" /\ Len(statsLog) = 2 /\ statsLog[1].dry /\ ~statsLog[2].dry)
    => statsLog[1].stats = statsLog[2].stats

\* the most recent finished handleArchiveFile call was one whose extraction
\* failed: extractArchive returned null
LastExtractionFailed == lastArch.op = "archive" /\ lastArch.out = "fail"

LastExtractDir == ExtractDirOf(lastArch.path, lastArch.base)

\* C11: when handleArchiveFile returns for an archive whose extraction
\* failed in a real run, a scratch directory that this call created is no
\* longer on disk, and nothing lies below it
C11_FailedExtractionLeavesNoScratch ==
    (LastExtractionFailed /\ ~lastArch.dry
       /\ ~pathExists(lastArch.pre.fs, LastExtractDir)) =>
       \A p \in DOMAIN lastArch.post.fs : ~IsPrefix(LastExtractDir, p)

\* the scratch directory handleArchiveFile would use for an entry of the
\* directory the walk is in
ScratchDirsHere ==
    { ExtractDirOf(Append(Top.dir, item), basePath) : item \in Top.items }

\* p is a scratch directory of the step, or lies below or above one
AtScratch(p) ==
    \E d \in ScratchDirsHere : IsPrefix(d, p) \/ IsPrefix(p, d)

\* C12: a real run's handleArchiveFile step creates or changes no path
\* outside the scratch directory of its archive (and the parents it creates
\* for it), the copy of the archive itself into the destination apart,
\* whatever the entry names of the archive are
C12_ExpansionStaysInScratch ==
    [][(handleArchiveFile /\ ~dryRun) =>
         \A p \in DOMAIN fs' :
            (p \notin DOMAIN fs \/ fs'[p] # fs[p]) =>
               \/ AtScratch(p)
               \/ IsPrefix(DestinationRoot(basePath), p)]_vars

\* C12 witness: a real run has handled z.zip, one of whose entries is named
\* ../../v.jpg: the extraction was rejected and A/v.jpg does not exist
C12_Witness ==
    /\ LastExtractionFailed
    /\ ~lastArch.dry
    /\ lastArch.path = <<A, nm("z", "zip")>>
    /\ \E e \in lastArch.pre.fs[lastArch.path].c.ents : ~validateFileName(e)
    /\ \E e \in lastArch.pre.fs[lastArch.path].c.ents :
          /\ validateFileName(e)
          /\ pathExists(lastArch.post.fs, JoinPath(LastExtractDir \o e.p))
    /\ ~pathExists(fs, <<A, nm("v", "jpg")>>)

\* directory d of the initial tree cannot be listed, and the walk of the
\* last run listed its parent
ListingFailedAt(d) ==
    /\ IsDirectory(fs0, d)
    /\ ~ReaddirOk(fs0, d)
    /\ \E v \in visited : v.run = run /\ v.dir = Dirname(d)

\* q is a file of the initial tree that every walker places: its name has an
\* allowed extension that its bytes do not contradict, and it is no archive
PlainSupportedFile(q) ==
    /\ IsFile(fs0, q)
    /\ isAllowedFileType(getFileExtension(Basename(q)))
    /\ ResolvedExtension(fs0, q) = getFileExtension(Basename(q))
    /\ ~isArchiveFile(getFileExtension(Basename(q)))

\* C13: when the listing of one directory failed during a walk, the run
\* still ends, and by then every sibling file of that directory that the
\* walker places has been copied and every sibling directory it may list
\* has been listed
C13_UnreadableDirectoryDoesNotStopWalk ==
    phase = "done" =>
       \A d \in DOMAIN fs0 : ListingFailedAt(d) =>
          \A q \in DOMAIN fs0 : (Dirname(q) = Dirname(d) /\ q # d) =>
             /\ PlainSupportedFile(q) =>
                  \E i \in 1..Len(copies) : copies[i].src = q /\ copies[i].run = run
             /\ (ReaddirOk(fs0, q) /\ Basename(q) \notin {OrganizedFiles, TempExtract, Out}) =>
                  \E v \in visited : v.run = run /\ v.dir = q

\* C14: every organizeDirectories call of FileOrganizer that has started
\* eventually reaches printStats, whatever fails on the way
C14_RunReachesPrintStats ==
    (phase = "run") ~> (phase \in {"idle", "done"})

\* the root of the tree a copy went into: its target is root/folder/name
RootOfCopy(cp) == SubSeq(cp.dst, 1, Len(cp.dst) - 2)

\* C15: all the files one run places, from whichever source directory and
\* whether found in the tree or extracted from an archive, go into one and
\* the same destination root
C15_SingleDestinationTree ==
    \A i, j \in 1..Len(copies) :
       copies[i].run = copies[j].run => RootOfCopy(copies[i]) = RootOfCopy(copies[j])

\* C16: every file and directory that was in the source trees before the
\* first run is still there, with the same content, at every moment of
\* every run
C16_OriginalsPreserved ==
    \A p \in DOMAIN fs0 : pathExists(fs, p) /\ fs[p] = fs0[p]

\* q is a regular file of the initial tree, in a source directory and outside
\* the destination root of that source, whose resolved extension is allowed
SupportedSourceFile(q) ==
    /\ IsFile(fs0, q)
    /\ \E i \in 1..Len(Directories) :
          /\ IsPrefix(Directories[i], q)
          /\ ~IsPrefix(DestinationRoot(Directories[i]), q)
    /\ isAllowedFileType(ResolvedExtension(fs0, q))

\* C17: when a real run of FileOrganizer has ended without any error, every
\* supported file of the source trees has been copied into the destination
\* exactly once by that run
C17_NoSupportedFileLost ==
    (phase = "done" /\ ~dryRun /\ stats.errors = 0) =>
       \A q \in DOMAIN fs0 : SupportedSourceFile(q) =>
          Cardinality({i \in 1..Len(copies) :
                         copies[i].src = q /\ copies[i].run = run}) = 1

\* the most recent copyFileToOrganizedLocation call resolved a target path
\* and returned it
LastCopyResolved == last.op = "copy" /\ last.ret # NullPath

LastTargetDir == TargetDir(last.pre.fs, last.path, last.base, opts.outputDir)

LastFileName == FinalFileName(last.pre.fs, last.path)

\* C18: the path copyFileToOrganizedLocation resolves is the nominal path
\* targetDir/fileName when nothing exists there; otherwise it is
\* targetDir/name_k.ext for the least k >= 1 at which nothing exists
C18_LeastSuffixProbe ==
    LastCopyResolved =>
       IF ~pathExists(last.pre.fs, Append(LastTargetDir, LastFileName))
       THEN last.ret = Append(LastTargetDir, LastFileName)
       ELSE \E k \in 1..(MaxFiles + MaxEntries + 1) :
               /\ last.ret = Append(LastTargetDir, Suffixed(LastFileName, k))
               /\ ~pathExists(last.pre.fs, last.ret)
               /\ \A j \in 1..(k - 1) :
                     pathExists(last.pre.fs, Append(LastTargetDir, Suffixed(LastFileName, j)))

\* C18 witness: in one real run a.jpg was placed as jpg/a.jpg and a file of
\* the same name was then resolved to jpg/a_1.jpg
C18_Witness ==
    /\ LastCopyResolved
    /\ ~last.dry
    /\ LastFileName = nm("a", "jpg")
    /\ \E i \in 1..Len(copies) :
          /\ copies[i].run = last.run
          /\ copies[i].dst = <<A, Out, <<"jpg">>, nm("a", "jpg")>>
          /\ i <= last.pre.ncopies
    /\ last.ret = <<A, Out, <<"jpg">>, <<"a", "_", "1", ".", "jpg">>>>

\* C18, second witness state: name.ext and name_1.ext both exist and the
\* file is resolved to name_2.ext
C18_WitnessSecondSuffix ==
    /\ LastCopyResolved
    /\ ~last.dry
    /\ last.ret = <<A, Out, <<"jpg">>, <<"a", "_", "2", ".", "jpg">>>>

\* the special patterns one of whose expressions matches the name n
MatchingPatterns(n) ==
    {i \in 1..Len(specialPatterns) : PatternMatches(specialPatterns[i], n)}

\* the categories whose extension list holds the extension
CategoriesOf(extension) ==
    {j \in 1..Len(categories) : Len(extension) = 1 /\ extension[1] \in categories[j][2]}

Least(S) == CHOOSE x \in S : \A y \in S : x <= y

\* C19: the categorization processFile obtained for each file is that of the
\* first special pattern, in declaration order, that matches the file name;
\* when none matches, that of the first category of the table whose
\* extensions hold the lowercase extension; otherwise Other, the subcategory
\* being the extension, or no-extension when the name has none
C19_CategorizeFollowsOrderedPolicy ==
    \A i \in 1..Len(procs) :
       LET n == Basename(procs[i].file)
           extension == SmartExtension(n)
           c == procs[i].categorization
       IN  IF MatchingPatterns(n) # {}
           THEN /\ c.isSpecial
                /\ c.category = <<specialPatterns[Least(MatchingPatterns(n))].name>>
                /\ c.subcategory =
                     (IF specialPatterns[Least(MatchingPatterns(n))].parentCategory = ""
                      THEN <<>>
                      ELSE <<specialPatterns[Least(MatchingPatterns(n))].parentCategory>>)
           ELSE IF CategoriesOf(extension) # {}
           THEN /\ ~c.isSpecial
                /\ c.category = <<categories[Least(CategoriesOf(extension))][1]>>
                /\ c.subcategory = <<>>
           ELSE /\ ~c.isSpecial
                /\ c.category = <<"Other">>
                /\ c.subcategory = (IF extension = <<>> THEN NoExtension ELSE extension)

\* C19 witness: one batch holds Screenshot_tmp.PNG, which two special
\* patterns match and the table knows as an image, categorized Screenshots,
\* and readme, which has no extension, categorized Other/no-extension
C19_Witness ==
    \E i, j \in 1..Len(procs) :
       /\ Cardinality(MatchingPatterns(Basename(procs[i].file))) >= 2
       /\ CategoriesOf(SmartExtension(Basename(procs[i].file))) # {}
       /\ procs[i].categorization.category = <<"Screenshots">>
       /\ procs[i].categorization.subcategory = <<"Images">>
       /\ Basename(procs[j].file) = <<"readme">>
       /\ procs[j].categorization.category = <<"Other">>
       /\ procs[j].categorization.subcategory = NoExtension

\* the most recent copyFileToOrganizedLocation call was the one
\* handleArchiveFile makes for its archive
LastCopyByArchiveHandler ==
    /\ lastArch.op = "archive"
    /\ lastArch.path = last.path
    /\ lastArch.run = last.run
    /\ lastArch.post = last.post

\* C20: with extraction enabled, a file is placed by handleArchiveFile, after
\* the attempt to expand it, exactly when its resolved extension is zip or
\* rar; any other file is placed directly, as an opaque file
C20_ExpandedIffResolvedArchive ==
    (last.op = "copy" /\ opts.extractArchives) =>
       (LastCopyByArchiveHandler <=>
          isArchiveFile(ResolvedExtension(last.pre.fs, last.path)))

\* ---------------------------------------------------------------- C21
\* the positions of the signature table whose signature the leading bytes
\* of the node at p match; none when p is no regular file (open or read fails)
MatchingPositions(f, p) ==
    IF IsFile(f, p)
    THEN {j \in 1..Len(signatures) : SigMatches(signatures[j][2], f[p].c.bytes)}
    ELSE {}

\* the lower-cased extension of a name without its dot, the sentinel when
\* path.extname gives nothing
ExtensionOrSentinel(n) ==
    IF ExtName(n) = <<>> THEN NoExtension ELSE LowerName(Tail(ExtName(n)))

\* the paths detectFileType is asked about: every node and one missing path
ProbedPaths == DOMAIN fs \cup {<<A, nm("missing", "PNG")>>}

\* C21: detectFileType returns, for every path, the type at the least
\* position of the signature table (jpg, jpeg, png, pdf, zip, rar, eps, psd)
\* whose signature bytes all equal the leading bytes of the file; when no
\* signature matches or the path cannot be opened or read it returns the
\* lower-cased extension of the name, or 'no-extension' when the name has none
C21_DetectFileTypeFirstSignatureElseExtension ==
    \A p \in ProbedPaths :
       detectFileType(fs, p) =
          IF MatchingPositions(fs, p) # {}
          THEN <<signatures[Least(MatchingPositions(fs, p))][1]>>
          ELSE ExtensionOrSentinel(Basename(p))

\* C21 witness: a real run has placed the JPEG file j.txt under jpg (the
\* type detected from its bytes), the tree holds the directory "locked"
\* (unreadable as a file, no extension) and the missing path answers "png"
C21_Witness ==
    /\ LastCopyPlaced
    /\ last.path = <<A, nm("j", "txt")>>
    /\ Dirname(last.ret) = <<A, Out, <<"jpg">>>>
    /\ detectFileType(last.pre.fs, last.path) = <<"jpg">>
    /\ IsDirectory(fs, <<A, Locked>>)
    /\ detectFileType(fs, <<A, Locked>>) = NoExtension
    /\ detectFileType(fs, <<A, nm("missing", "PNG")>>) = <<"png">>

\* ---------------------------------------------------------------- C22
\* the files of a sequence of batches, in order
RECURSIVE FilesOfBatches(_)
FilesOfBatches(cs) ==
    IF cs = <<>> THEN <<>> ELSE Head(cs) \o FilesOfBatches(Tail(cs))

\* the files of the processFile calls of the current batch
InFlight == [i \in 1..Len(procs) |-> procs[i].file]

Finished == {i \in 1..Len(procs) : procs[i].pc = "done"}

\* the number of files handed to processFile so far
Started == Len(allFiles) - Len(FilesOfBatches(chunks))

\* while processFiles runs: the batches not yet started are the rest of the
\* file list, the current batch is the slice just before them and holds at
\* most maxConcurrentFiles files, every earlier batch was full, and every
\* file of an earlier batch and every finished file of this one has been
\* counted once, as processed or as failed
BatchesPartitionFiles ==
    phase = "organizing" =>
       /\ Len(procs) <= opts.maxConcurrentFiles
       /\ Started >= Len(procs)
       /\ FilesOfBatches(chunks) = SubSeq(allFiles, Started + 1, Len(allFiles))
       /\ InFlight = SubSeq(allFiles, Started - Len(procs) + 1, Started)
       /\ (Started - Len(procs)) % opts.maxConcurrentFiles = 0
       /\ \A i \in 1..Len(chunks) : Len(chunks[i]) >= 1
       /\ stats.filesProcessed + stats.errors
             = (Started - Len(procs)) + Cardinality(Finished)

\* a step that hands new files to processFile is taken when every call of
\* the batch before has finished, and hands over exactly the next batch
BatchStartsAfterBatch ==
    (phase = "organizing" /\ phase' = "organizing" /\ chunks' # chunks)
       => /\ AllDone
          /\ chunks # <<>>
          /\ chunks' = Tail(chunks)
          /\ [i \in 1..Len(procs') |-> procs'[i].file] = Head(chunks)
          /\ \A i \in 1..Len(procs') : procs'[i].pc # "done"

\* C22: SmartFileOrganizer.processFiles keeps the batch discipline for every
\* file list and every maxConcurrentFiles >= 1: the batches partition the
\* files (each is processed exactly once), at most maxConcurrentFiles calls
\* are in flight, and no file of batch k+1 starts before every file of
\* batch k has finished, also when some file fails
C22_BatchDiscipline ==
    [](BatchesPartitionFiles) /\ [][BatchStartsAfterBatch]_vars

\* C22 witness: with maxConcurrentFiles = 1 and two files, the first file
\* has failed in a real run and the second batch is in flight
C22_Witness ==
    /\ phase = "organizing"
    /\ ~dryRun
    /\ opts.maxConcurrentFiles = 1
    /\ Len(allFiles) = 2
    /\ chunks = <<>>
    /\ InFlight = <<allFiles[2]>>
    /\ Finished = {}
    /\ stats.errors = 1
    /\ stats.filesProcessed = 0

\* C22 witness: with maxConcurrentFiles = 2 two calls are in flight at once,
\* one finished and one not
C22_WitnessTwoInFlight ==
    /\ phase = "organizing"
    /\ opts.maxConcurrentFiles = 2
    /\ Len(procs) = 2
    /\ Cardinality(Finished) = 1

\* ---------------------------------------------------------------- C23
\* the per-archive scratch directories (and what lies below them) that are
\* on disk now and were not before the session
ScratchCreated ==
    { p \in DOMAIN fs \ DOMAIN fs0 :
        \E i \in 1..Len(Directories) :
           /\ IsPrefix(Append(Directories[i], TempExtract), p)
           /\ Len(p) > Len(Directories[i]) + 1 }

RealRunOver ==
    /\ phase = "done"
    /\ statsLog # <<>>
    /\ ~statsLog[Len(statsLog)].dry

\* C23: handleArchiveFile extracts, walks, deletes the scratch directory and
\* then copies the archive, in this order; so at the end of a real run with
\* cleanup enabled no scratch directory created by the run remains
C23_NoScratchRemainsAfterRealRun ==
    (RealRunOver /\ opts.cleanupExtracted) => ScratchCreated = {}

\* ---------------------------------------------------------------- C24
\* the paths below the scratch directory of an expansion in progress that
\* were on disk when the expansion started and were written in this session
ForeignEntries(frame) ==
    { p \in DOMAIN frame.pre.fs \ DOMAIN fs0 :
        IsPrefix(frame.dir, p) /\ Len(p) > Len(frame.dir) }

\* C24: a scratch directory is owned by one archive expansion: no expansion
\* starts in a scratch directory that still holds entries of another archive
\* (same base name in different directories, x.zip and x.rar), also with
\* cleanupExtracted = false
C24_ScratchOwnedByOneExpansion ==
    \A i \in 1..Len(stack) :
       (stack[i].k = "arch" /\ ~dryRun) => ForeignEntries(stack[i]) = {}

\* ---------------------------------------------------------------- C25
\* C25: temp_extract is never enumerated by the walker as ordinary source
\* content; only the archive handler walks below it, and it walks the
\* scratch directory of its archive, never temp_extract itself; this holds
\* in every run, a run after temp_extract was left behind included
C25_TempExtractNeverEnumerated ==
    \A v \in visited : v.dir # Append(v.base, TempExtract)

\* ---------------------------------------------------------------- C26
\* the archive expansions in progress, one inside the other
ExpansionDepth == Cardinality({i \in 1..Len(stack) : stack[i].k = "arch"})

\* C26: archive bombs are bounded: the expander never expands archives
\* nested more than maxDepth (5) deep
C26_ExpansionDepthBounded ==
    (phase = "run" /\ ~dryRun) => ExpansionDepth <= maxDepth

\* ---------------------------------------------------------------- C27
\* stat failed on entry d of a directory the walker of this run listed
StatFailedAt(d) ==
    /\ d \in DOMAIN fs0
    /\ ~StatOk(fs0, d)
    /\ \E v \in visited : v.run = run /\ v.dir = Dirname(d)

\* C27: when stat fails on one entry in FileOrganizer.scanDirectory, only
\* that entry is skipped: by the end of the run every other entry of the
\* same directory has been processed (a file the walker places has been
\* copied, a subdirectory has been listed)
C27_StatFailureSkipsOnlyThatEntry ==
    RealRunOver =>
       \A d \in DOMAIN fs0 : StatFailedAt(d) =>
          \A q \in DOMAIN fs0 : (Dirname(q) = Dirname(d) /\ q # d) =>
             /\ PlainSupportedFile(q) =>
                  \E i \in 1..Len(copies) : copies[i].src = q /\ copies[i].run = run
             /\ (ReaddirOk(fs0, q) /\ Basename(q) \notin {TempExtract, Out}) =>
                  \E v \in visited : v.run = run /\ v.dir = q

\* ---------------------------------------------------------------- C28
\* the processFile call i ends in this step after handleDuplicates answered
\* 'skip' for a destination that exists
SkippedDuplicateEnds(i) ==
    /\ opts.handleDuplicates = "skip"
    /\ i <= Len(procs')
    /\ procs[i].pc = "copy"
    /\ procs'[i].pc = "done"
    /\ procs[i].targetPath = NullPath

\* C28: with handleDuplicates = 'skip', SmartFileOrganizer.processFile for a
\* file whose destination exists copies nothing, leaves the existing file
\* unchanged and records neither an error nor a processed file, in a
\* preview and in a real run alike
C28_SkipDuplicateRecordsNothing ==
    [][\A i \in 1..Len(procs) : SkippedDuplicateEnds(i) =>
          /\ fs' = fs
          /\ copies' = copies
          /\ stats'.errors = stats.errors
          /\ stats'.filesProcessed = stats.filesProcessed]_vars

\* the same for the real run alone
C28_RealRunOnly ==
    [][\A i \in 1..Len(procs) : (SkippedDuplicateEnds(i) /\ ~dryRun) =>
          /\ stats'.errors = stats.errors
          /\ stats'.filesProcessed = stats.filesProcessed]_vars

\* the same for the preview alone
C28_PreviewOnly ==
    [][\A i \in 1..Len(procs) : (SkippedDuplicateEnds(i) /\ dryRun) =>
          /\ stats'.errors = stats.errors
          /\ stats'.filesProcessed = stats.filesProcessed]_vars

\* ---------------------------------------------------------------- C29
\* what the most recent copyFileToOrganizedLocation call added to a counter
LastDelta(counter) == last.post.stats[counter] - last.pre.stats[counter]

\* C29: every copyFileToOrganizedLocation call changes exactly one of
\* filesProcessed, skippedFiles and errors, by exactly 1, also when the
\* destination directory cannot be created; in a real run filesProcessed
\* grows exactly when the call copied a file
C29_OneCounterPerCall ==
    last.op = "copy" =>
       /\ LastDelta("filesProcessed") + LastDelta("skippedFiles") + LastDelta("errors") = 1
       /\ ~last.dry =>
            LastDelta("filesProcessed") = last.post.ncopies - last.pre.ncopies

\* ---------------------------------------------------------------- C30
\* C30: the extension copyFileToOrganizedLocation resolves for a file is the
\* value getCorrectFileExtension returns for it, for every combination of
\* detected type and name extension
C30_CopyResolvesAsGetCorrectFileExtension ==
    last.op = "copy" =>
       ResolvedExtension(last.pre.fs, last.path)
          = getCorrectFileExtension(last.pre.fs, last.path)

====
